---- MODULE Spec2Model ----
(***************************************************************************)
(* State-machine model of llmserve's scheduling and admission core:        *)
(*   util/ratelimit.py     RateLimiter (token bucket + semaphore)          *)
(*   scheduler/fairshare.py FairShareScheduler (scored heap, run loop)     *)
(*   router/router.py      Router.submit_and_stream (relay generator)      *)
(*                                                                         *)
(* Conventions                                                             *)
(*  - One tick of `now` is one second; time.time() and monotonic_time()    *)
(*    both read `now`.                                                     *)
(*  - A score is kept as an exact fraction [n, d]: d = weight * est_tokens *)
(*    and n the product of the numerators of the multipliers of _score     *)
(*    (the multipliers' denominators are the same for every item of one    *)
(*    configuration and are dropped).                                      *)
(*  - A text fragment is a natural number: 0 is the empty string, k > 0 a  *)
(*    non-empty fragment (the k-th one of its stream).                     *)
(*  - Request ids (uuid4) are the index of the submit_and_stream call.     *)
(***************************************************************************)
EXTENDS Integers, Sequences, FiniteSets, TLC

\* ---------------------------------------------------------------- bounds
MaxReqs == 2        \* submit_and_stream calls in one behaviour
MaxTime == 1        \* last clock reading
MaxFrags == 1       \* fragments a remote backend's stream delivers at most
MaxChunks == 2      \* chunks the local engine's text is cut into at most
MaxRequeue == 2     \* decode items put back after a failed acquire, in all
MaxCallers == 2     \* direct callers of the RateLimiter (RLSpec)
MaxQueued == 3      \* requests submitted to the scheduler directly
MaxCapacity == 2    \* largest max_entries of a PrefixHeuristic
MaxObserves == 6
MaxHeap == 4    \* observe calls on one PrefixHeuristic

\* ------------------------------------------------------ program constants
Unbounded == 1000000         \* Semaphore(int(c.max_concurrency) or 1_000_000)
PenaltyNum == 5              \* deprioritize_multiplier = 1.25 = 5/4
PenaltyDen == 4
SleepCap == 2                \* min(wait_s, 2.0)
MinDecodeSlots == 2          \* min_decode_slots: int = 2
MaxEntries == 4096           \* PrefixHeuristic(max_entries = 4096)

Policies == {"deprioritize", "queue", "reject"}
Buckets == {"t1", "default"}          \* tenants with a rate_limits entry
RequestTenants == {"t1", "t2"}        \* tenants callers name; t2 has no entry
PromptLens == {0, 12}                 \* len(prompt)
Backends == {"local", "grpc", "vllm"}

VARIABLES
  cfg,        \* the manifest: rate_limits, fair-share weights, policies, backend
  now,        \* clock
  buckets,    \* RateLimiter.buckets: [tokens, last_ts] per configured tenant
  sems,       \* RateLimiter.sems: Semaphore._value per configured tenant
  semq,       \* RateLimiter.sems: Semaphore._waiters per configured tenant
  lru,        \* PrefixHeuristic.lru: sighting count per prompt prefix
  arrival,    \* FairShareScheduler.arrival
  q,          \* FairShareScheduler.q, the heap array
  reqs,       \* FairShareScheduler.reqs: req_id -> RequestCtx
  out_q,      \* RequestCtx.out_q per request
  done,       \* RequestCtx.done per request
  sched,      \* position of the FairShareScheduler.run task
  relay,      \* position of each submit_and_stream generator
  yielded,    \* fragments each submit_and_stream yielded to its caller
  hist,       \* observation: what the scheduler did for each request
  requeues,   \* observation: decode items put back after a failed acquire
  callers     \* tasks calling the RateLimiter directly (RLSpec)

vars == <<cfg, now, buckets, sems, semq, lru, arrival, q, reqs, out_q, done,
          sched, relay, yielded, hist, requeues, callers>>

Max(a, b) == IF a >= b THEN a ELSE b
Min(a, b) == IF a <= b THEN a ELSE b

\* ------------------------------------------------------------ prompts
\* A prompt is its length and its text; a prompt shorter than 512 characters
\* is its own prefix.
Prompts == [len : PromptLens, body : {1}]

\* Router.submit_and_stream: est_tokens = max(1, len(prompt) // 4)
EstimateTokens(prompt) == Max(1, prompt.len \div 4)

\* ---------------------------------------------------- PrefixHeuristic
\* PrefixHeuristic._prefix_key: the hash of prompt[:512]
PrefixKey(prompt) == [len |-> Min(prompt.len, 512), body |-> prompt.body]

LruCount(l, key) ==
  IF \E i \in 1..Len(l) : l[i].key = key
  THEN (CHOOSE e \in {l[i] : i \in 1..Len(l)} : e.key = key).cnt
  ELSE 0

\* observe without move_to_end: an existing entry keeps its place
ObserveLru_NoRefresh(l, prompt, max_entries) ==
  LET key == PrefixKey(prompt)
      cnt == LruCount(l, key) + 1
      l2 == IF \E i \in 1..Len(l) : l[i].key = key
            THEN [i \in 1..Len(l) |-> IF l[i].key = key THEN [key |-> key, cnt |-> cnt]
                                       ELSE l[i]]
            ELSE Append(l, [key |-> key, cnt |-> cnt])
  IN IF Len(l2) > max_entries THEN Tail(l2) ELSE l2

\* PrefixHeuristic.observe: the map after the call (count incremented, entry
\* moved to the most-recent end, oldest entry evicted beyond max_entries)
ObserveLru(l, prompt, max_entries) ==
  LET key == PrefixKey(prompt)
      cnt == LruCount(l, key) + 1
      rest == SelectSeq(l, LAMBDA e : e.key # key)
      l2 == Append(rest, [key |-> key, cnt |-> cnt])
  IN IF Len(l2) > max_entries THEN Tail(l2) ELSE l2

\* the probability read off the count before the increment
ObserveProb_PreIncrement(l, prompt) ==
  LET cnt == LruCount(l, PrefixKey(prompt))
  IN IF cnt >= 5 THEN 9 ELSE IF cnt = 4 THEN 7 ELSE IF cnt = 3 THEN 5
     ELSE IF cnt = 2 THEN 3 ELSE 1

\* PrefixHeuristic.observe: the returned probability, in tenths
ObserveProb(l, prompt) ==
  LET cnt == LruCount(l, PrefixKey(prompt)) + 1
  IN IF cnt >= 5 THEN 9 ELSE IF cnt = 4 THEN 7 ELSE IF cnt = 3 THEN 5
     ELSE IF cnt = 2 THEN 3 ELSE 1

\* -------------------------------------------------------- RateLimiter
\* RateLimitCfg() as config.py fills it in for the tenant "default"
DefaultRateLimitCfg ==
  [tokens_per_sec |-> 0, burst |-> 0, max_concurrency |-> 0,
   on_exhaustion |-> "deprioritize"]

\* the rate_limits entries the model draws for tenant t1
T1RateLimitCfgs ==
  [tokens_per_sec : {1}, burst : {1, 3}, max_concurrency : {1},
   on_exhaustion : Policies]

\* RateLimiter.__init__: burst = c.burst or (rate*2 if rate>0 else 0.0)
BurstOf(c) ==
  IF c.burst # 0 THEN c.burst
  ELSE IF c.tokens_per_sec > 0 THEN c.tokens_per_sec * 2 ELSE 0

\* RateLimiter.__init__: Semaphore(int(c.max_concurrency) or 1_000_000)
SlotsOf(c) == IF c.max_concurrency # 0 THEN c.max_concurrency ELSE Unbounded

\* an unconfigured tenant falling back on the first configured tenant
BucketOf_First(tenant) == IF tenant \in Buckets THEN tenant ELSE "t1"

\* t = tenant if tenant in self.buckets else "default"
BucketOf(tenant) == IF tenant \in Buckets THEN tenant ELSE "default"

\* RateLimiter._cfg
RlCfg(t) == IF t \in DOMAIN cfg.rate_limits THEN cfg.rate_limits[t]
            ELSE cfg.rate_limits["default"]

\* _refill adding a second's worth of tokens whether or not time has passed
Refill_NoElapsed(b, t, at) ==
  LET rate == RlCfg(t).tokens_per_sec
  IN IF rate <= 0 THEN b
     ELSE [tokens |-> Min(BurstOf(RlCfg(t)), b.tokens + rate), last_ts |-> at]

\* RateLimiter._refill applied to bucket b of tenant t at time `at`
Refill(b, t, at) ==
  LET rate == RlCfg(t).tokens_per_sec
      dt == at - b.last_ts
  IN IF rate <= 0 THEN b
     ELSE IF dt > 0
          THEN [tokens |-> Min(BurstOf(RlCfg(t)), b.tokens + rate * dt),
                last_ts |-> at]
          ELSE b

\* an assessment that penalizes a deficit under every policy
Assess_AnyPolicy(bk, tenant, est_tokens) ==
  LET t == BucketOf(tenant)
      pol == RlCfg(t).on_exhaustion
      b == Refill(bk[t], t, now)
      deficit == Max(0, est_tokens - b.tokens)
  IN IF deficit > 0
     THEN [tenant |-> t, penalty_multiplier |-> [n |-> PenaltyNum, d |-> PenaltyDen],
           penalty_expires_at |-> now + cfg.penalty_window,
           tokens_deficit |-> deficit, policy |-> pol]
     ELSE [tenant |-> t, penalty_multiplier |-> [n |-> 1, d |-> 1],
           penalty_expires_at |-> 0,
           tokens_deficit |-> deficit, policy |-> pol]

\* RateLimiter.assess: the Assessment returned, read off the refilled bucket
Assess(bk, tenant, est_tokens) ==
  LET t == BucketOf(tenant)
      pol == RlCfg(t).on_exhaustion
      b == Refill(bk[t], t, now)
      deficit == Max(0, est_tokens - b.tokens)
  IN IF pol = "deprioritize" /\ deficit > 0
     THEN [tenant |-> t, penalty_multiplier |-> [n |-> PenaltyNum, d |-> PenaltyDen],
           penalty_expires_at |-> now + cfg.penalty_window,
           tokens_deficit |-> deficit, policy |-> pol]
     ELSE [tenant |-> t, penalty_multiplier |-> [n |-> 1, d |-> 1],
           penalty_expires_at |-> 0,
           tokens_deficit |-> deficit, policy |-> pol]

\* an assessment that takes the tenant's tokens
AssessBuckets_Drain(bk, tenant) ==
  LET t == BucketOf(tenant)
  IN [bk EXCEPT ![t] = [Refill(bk[t], t, now) EXCEPT !.tokens = 0]]

\* an assessment that refills every tenant's bucket
AssessBuckets_AllTenants(bk, tenant) ==
  [u \in DOMAIN bk |-> Refill(bk[u], u, now)]

\* RateLimiter.assess: the buckets after the call (the lazy refill)
AssessBuckets(bk, tenant) ==
  LET t == BucketOf(tenant) IN [bk EXCEPT ![t] = Refill(bk[t], t, now)]

\* asyncio.Semaphore.locked(), or sem._value <= 0
Locked(sm, wq, t) == sm[t] <= 0 \/ wq[t] # <<>>

\* The concurrency gate of acquire_for_decode under reject and deprioritize:
\* `sem.acquire()` is called without await, which creates a coroutine that
\* never runs, so the semaphore keeps its value.
GateNoWait(sm, t) == sm

\* Semaphore._wake_up_next: the first waiter whose future is not done (0: none)
FirstWaiting(w) ==
  IF \E i \in 1..Len(w) : ~w[i].granted
  THEN CHOOSE i \in 1..Len(w) : ~w[i].granted /\ \A j \in 1..(i - 1) : w[j].granted
  ELSE 0

\* asyncio.Semaphore.release, the value: _value += 1, and _wake_up_next takes
\* it back for the waiter it wakes
SemRelease(sm, wq, t) ==
  IF FirstWaiting(wq[t]) # 0 THEN sm ELSE [sm EXCEPT ![t] = @ + 1]

\* a release that wakes nobody
WakeUpNext_Lost(wq, t) == wq

\* asyncio.Semaphore.release, the waiters: the first pending future is set
WakeUpNext(wq, t) ==
  IF FirstWaiting(wq[t]) # 0
  THEN [wq EXCEPT ![t][FirstWaiting(wq[t])].granted = TRUE]
  ELSE wq

\* the token bucket without the `rate <= 0` shortcut: a tenant without a rate
\* is metered like any other
TokenBucket_Metered(bk, sm, t, cost) ==
  LET policy == RlCfg(t).on_exhaustion
      b == Refill(bk[t], t, now)
      bk1 == [bk EXCEPT ![t] = b]
  IN IF b.tokens >= cost
     THEN [outcome |-> "handle", reason |-> "",
           buckets |-> [bk1 EXCEPT ![t].tokens = @ - cost], sems |-> sm]
     ELSE IF policy = "reject"
     THEN [outcome |-> "RateLimitError", reason |-> "tokens", buckets |-> bk1,
           sems |-> [sm EXCEPT ![t] = @ + 2]]
     ELSE IF policy = "queue"
     THEN [outcome |-> "sleep", reason |-> "", buckets |-> bk1, sems |-> sm]
     ELSE [outcome |-> "RateLimitRetry", reason |-> "tokens", buckets |-> bk1,
           sems |-> [sm EXCEPT ![t] = @ + 2]]

\* The token-bucket half of acquire_for_decode (lines 105-133), entered with
\* semaphore values sm.  outcome: "handle", "RateLimitError", "RateLimitRetry"
\* or "sleep" (policy queue waiting for the refill).
TokenBucket(bk, sm, t, cost) ==
  LET c == RlCfg(t)
      policy == c.on_exhaustion
      b == Refill(bk[t], t, now)
      bk1 == [bk EXCEPT ![t] = b]
  IN IF c.tokens_per_sec <= 0
     THEN [outcome |-> "handle", reason |-> "", buckets |-> bk1, sems |-> sm]
     ELSE IF b.tokens >= cost
     THEN [outcome |-> "handle", reason |-> "",
           buckets |-> [bk1 EXCEPT ![t].tokens = @ - cost], sems |-> sm]
     ELSE IF policy = "reject"
     \* sem.release() before the raise, and again in the bare except
     THEN [outcome |-> "RateLimitError", reason |-> "tokens", buckets |-> bk1,
           sems |-> [sm EXCEPT ![t] = @ + 2]]
     ELSE IF policy = "queue"
     THEN [outcome |-> "sleep", reason |-> "", buckets |-> bk1, sems |-> sm]
     ELSE [outcome |-> "RateLimitRetry", reason |-> "tokens", buckets |-> bk1,
           sems |-> [sm EXCEPT ![t] = @ + 2]]

\* acquire_for_decode up to its first suspension.  outcome "wait_sem": policy
\* queue found the semaphore locked and waits for a release.
AcquireForDecode(bk, sm, wq, tenant, cost) ==
  LET t == BucketOf(tenant)
      policy == RlCfg(t).on_exhaustion
  IN IF policy = "reject"
     THEN IF Locked(sm, wq, t)
          THEN [outcome |-> "RateLimitError", reason |-> "concurrency",
                buckets |-> bk, sems |-> sm]
          ELSE TokenBucket(bk, GateNoWait(sm, t), t, cost)
     ELSE IF policy = "queue"
     THEN IF Locked(sm, wq, t)
          THEN [outcome |-> "wait_sem", reason |-> "", buckets |-> bk, sems |-> sm]
          ELSE TokenBucket(bk, [sm EXCEPT ![t] = @ - 1], t, cost)
     ELSE IF Locked(sm, wq, t)
          THEN [outcome |-> "RateLimitRetry", reason |-> "concurrency",
                buckets |-> bk, sems |-> sm]
          ELSE TokenBucket(bk, GateNoWait(sm, t), t, cost)

\* the debit after the sleep without its max(0.0, ...)
AfterSleep_NoClamp(bk, t, cost) ==
  LET b == Refill(bk[t], t, now)
  IN [bk EXCEPT ![t] = [b EXCEPT !.tokens = b.tokens - cost]]

\* policy queue after asyncio.sleep(min(wait_s, 2.0)): refill, take what is there
AfterSleep(bk, t, cost) ==
  LET b == Refill(bk[t], t, now)
  IN [bk EXCEPT ![t] = [b EXCEPT !.tokens = Max(0, b.tokens - cost)]]

\* asyncio.sleep(min(deficit / max(1e-6, rate), 2.0)) started at `start` is over
SleepOver(t, start, deficit) ==
  RlCfg(t).tokens_per_sec * (now - start)
     >= Min(deficit, SleepCap * RlCfg(t).tokens_per_sec)

\* ------------------------------------------------- FairShareScheduler
\* _ScoredItem (order=True): compared by score, then arrival_id
NoItem == [score |-> [n |-> 0, d |-> 1], arrival_id |-> 0, req_id |-> 0,
           kind |-> "none", offset |-> 0]

ScoreLess(a, b) == a.n * b.d < b.n * a.d
ScoreEq(a, b) == a.n * b.d = b.n * a.d

ItemLess(a, b) ==
  \/ ScoreLess(a.score, b.score)
  \/ ScoreEq(a.score, b.score) /\ a.arrival_id < b.arrival_id

\* FairShareScheduler._tenant_weight
TenantWeight(tenant) ==
  IF tenant \in DOMAIN cfg.fair_share THEN cfg.fair_share[tenant] ELSE 1

\* _score with a penalty that never expires
Score_PenaltyForever(ctx, kind, at) ==
  LET hit == IF cfg.prefix_awareness /\ ctx.prefix_hit_prob > 5 THEN 7 ELSE 10
      pm == ctx.penalty_mult
      pen == IF pm.n > pm.d THEN PenaltyNum ELSE PenaltyDen
      waited == Max(0, at - ctx.created_ts)
      age == IF cfg.aging_seconds > 0
             THEN Max(4 * cfg.aging_seconds,
                      5 * cfg.aging_seconds - Min(cfg.aging_seconds, waited))
             ELSE 1
      dec == IF kind = "decode" THEN 9 ELSE 10
  IN [n |-> hit * pen * age * dec, d |-> TenantWeight(ctx.tenant) * ctx.est_tokens]

\* _score multiplying by the tenant weight instead of dividing by it
Score_WeightMultiplies(ctx, kind, at) ==
  LET hit == IF cfg.prefix_awareness /\ ctx.prefix_hit_prob > 5 THEN 7 ELSE 10
      pm == ctx.penalty_mult
      pen == IF pm.n > pm.d /\ (ctx.penalty_expires = 0 \/ at < ctx.penalty_expires)
             THEN PenaltyNum ELSE PenaltyDen
      waited == Max(0, at - ctx.created_ts)
      age == IF cfg.aging_seconds > 0
             THEN Max(4 * cfg.aging_seconds,
                      5 * cfg.aging_seconds - Min(cfg.aging_seconds, waited))
             ELSE 1
      dec == IF kind = "decode" THEN 9 ELSE 10
  IN [n |-> hit * pen * age * dec * TenantWeight(ctx.tenant), d |-> ctx.est_tokens]

\* _score with the discount given from a probability of 0.5 on
Score_DiscountAtHalf(ctx, kind, at) ==
  LET hit == IF cfg.prefix_awareness /\ ctx.prefix_hit_prob >= 5 THEN 7 ELSE 10
      pm == ctx.penalty_mult
      pen == IF pm.n > pm.d /\ (ctx.penalty_expires = 0 \/ at < ctx.penalty_expires)
             THEN PenaltyNum ELSE PenaltyDen
      waited == Max(0, at - ctx.created_ts)
      age == IF cfg.aging_seconds > 0
             THEN Max(4 * cfg.aging_seconds,
                      5 * cfg.aging_seconds - Min(cfg.aging_seconds, waited))
             ELSE 1
      dec == IF kind = "decode" THEN 9 ELSE 10
  IN [n |-> hit * pen * age * dec, d |-> TenantWeight(ctx.tenant) * ctx.est_tokens]

\* _score with the wait not floored at zero
Score_NegativeWait(ctx, kind, at) ==
  LET hit == IF cfg.prefix_awareness /\ ctx.prefix_hit_prob > 5 THEN 7 ELSE 10
      pm == ctx.penalty_mult
      pen == IF pm.n > pm.d /\ (ctx.penalty_expires = 0 \/ at < ctx.penalty_expires)
             THEN PenaltyNum ELSE PenaltyDen
      waited == at - ctx.created_ts
      age == IF cfg.aging_seconds > 0
             THEN Max(4 * cfg.aging_seconds,
                      5 * cfg.aging_seconds - Min(cfg.aging_seconds, waited))
             ELSE 1
      dec == IF kind = "decode" THEN 9 ELSE 10
  IN [n |-> hit * pen * age * dec, d |-> TenantWeight(ctx.tenant) * ctx.est_tokens]

\* FairShareScheduler._score at time `at`, as the fraction n / d
Score(ctx, kind, at) ==
  LET hit == IF cfg.prefix_awareness /\ ctx.prefix_hit_prob > 5 THEN 7 ELSE 10
      pm == ctx.penalty_mult
      pen == IF pm.n > pm.d /\ (ctx.penalty_expires = 0 \/ at < ctx.penalty_expires)
             THEN PenaltyNum ELSE PenaltyDen
      waited == Max(0, at - ctx.created_ts)
      age == IF cfg.aging_seconds > 0
             THEN Max(4 * cfg.aging_seconds,
                      5 * cfg.aging_seconds - Min(cfg.aging_seconds, waited))
             ELSE 1
      dec == IF kind = "decode" THEN 9 ELSE 10
  IN [n |-> hit * pen * age * dec, d |-> TenantWeight(ctx.tenant) * ctx.est_tokens]

\* heapq._siftdown (positions are 0-based as in heapq; heap[p + 1] is heap[p])
RECURSIVE SiftDownFrom(_, _, _, _)
SiftDownFrom(heap, startpos, pos, newitem) ==
  IF pos > startpos
  THEN LET parentpos == (pos - 1) \div 2
           parent == heap[parentpos + 1]
       IN IF ItemLess(newitem, parent)
          THEN SiftDownFrom([heap EXCEPT ![pos + 1] = parent], startpos, parentpos, newitem)
          ELSE [heap EXCEPT ![pos + 1] = newitem]
  ELSE [heap EXCEPT ![pos + 1] = newitem]

siftdown(heap, startpos, pos) == SiftDownFrom(heap, startpos, pos, heap[pos + 1])

\* heapq._siftup: bubble the smaller child up to a leaf, then sift newitem down
RECURSIVE SiftUpFrom(_, _, _, _)
SiftUpFrom(heap, startpos, pos, newitem) ==
  LET endpos == Len(heap)
      childpos == 2 * pos + 1
  IN IF childpos < endpos
     THEN LET rightpos == childpos + 1
              c == IF rightpos < endpos /\ ~ItemLess(heap[childpos + 1], heap[rightpos + 1])
                   THEN rightpos ELSE childpos
          IN SiftUpFrom([heap EXCEPT ![pos + 1] = heap[c + 1]], startpos, c, newitem)
     ELSE siftdown([heap EXCEPT ![pos + 1] = newitem], startpos, pos)

siftup(heap, pos) == SiftUpFrom(heap, pos, pos, heap[pos + 1])

\* heapq.heappush
heappush(heap, item) == siftdown(Append(heap, item), 0, Len(heap))

\* heapq.heappop: the heap left behind (the item returned is heap[1])
heappop(heap) ==
  LET lastelt == heap[Len(heap)]
      rest == SubSeq(heap, 1, Len(heap) - 1)
  IN IF rest # <<>> THEN siftup([rest EXCEPT ![1] = lastelt], 0) ELSE rest

\* heapq.heapify: for i in reversed(range(n // 2)): _siftup(x, i)
RECURSIVE HeapifyFrom(_, _)
HeapifyFrom(x, i) == IF i < 0 THEN x ELSE HeapifyFrom(siftup(x, i), i - 1)

heapify(x) == HeapifyFrom(x, Len(x) \div 2 - 1)

\* list.pop(i), i 0-based
ListPop(x, i) == SubSeq(x, 1, i) \o SubSeq(x, i + 2, Len(x))

\* The part of the state the scheduler loop works on, as one record, so that
\* the straight-line pieces of run() compose.
SchedState ==
  [q |-> q, arrival |-> arrival, buckets |-> buckets, sems |-> sems,
   done |-> done, out_q |-> out_q, sched |-> sched, hist |-> hist,
   requeues |-> requeues]

AtLoop == [pc |-> "loop", item |-> NoItem, mode |-> "none", extra |-> 0,
           start |-> 0, deficit |-> 0]

\* FairShareScheduler._enqueue_prefill
enqueue_prefill(S, rid, ctx, offset) ==
  LET it == [score |-> Score(ctx, "prefill", now), arrival_id |-> S.arrival + 1,
             req_id |-> rid, kind |-> "prefill", offset |-> offset]
  IN [S EXCEPT !.arrival = @ + 1, !.q = heappush(S.q, it)]

\* a decode item numbered without advancing the counter
enqueue_decode_NoCount(S, rid, ctx) ==
  LET it == [score |-> Score(ctx, "decode", now), arrival_id |-> S.arrival,
             req_id |-> rid, kind |-> "decode", offset |-> 0]
  IN [S EXCEPT !.q = heappush(S.q, it)]

\* FairShareScheduler._enqueue_decode
enqueue_decode(S, rid, ctx) ==
  LET it == [score |-> Score(ctx, "decode", now), arrival_id |-> S.arrival + 1,
             req_id |-> rid, kind |-> "decode", offset |-> 0]
  IN [S EXCEPT !.arrival = @ + 1, !.q = heappush(S.q, it)]

\* ctx.done.set()
done_set(S, rid) ==
  [S EXCEPT !.done[rid] = TRUE, !.hist[rid].done_sets = @ + 1]

\* the loop going on without releasing the handle
handle_release_Leak(S, rid) == S

\* handle.release() of the handle held for request rid (_Handle.release)
handle_release(S, rid) ==
  [S EXCEPT !.sems = SemRelease(S.sems, semq, BucketOf(reqs[rid].tenant)),
            !.hist[rid].released = @ + 1]

\* the retry signal failing the request instead of rescheduling it
OnRetryMain_Fail(S, it) ==
  [done_set(S, it.req_id) EXCEPT
      !.requeues = @ + 1,
      !.sched = [AtLoop EXCEPT !.pc = "retry_sleep", !.item = it, !.mode = "main"]]

\* run(), lines 117-122: RateLimitRetry caught in the main loop; the decode
\* item is re-enqueued after asyncio.sleep(0.01)
OnRetryMain(S, it) ==
  [S EXCEPT !.requeues = @ + 1,
            !.sched = [AtLoop EXCEPT !.pc = "retry_sleep", !.item = it, !.mode = "main"]]

\* the rejection marking the request done and putting its item back as well
OnRejectMain_Requeue(S, it) ==
  [enqueue_decode(done_set(S, it.req_id), it.req_id, reqs[it.req_id]) EXCEPT
      !.hist[it.req_id].rejects_main = TRUE, !.sched = AtLoop]

\* run(), lines 123-126: RateLimitError caught in the main loop
OnRejectMain(S, it) ==
  [done_set(S, it.req_id) EXCEPT !.hist[it.req_id].rejects_main = TRUE,
                                 !.sched = AtLoop]

\* run(), lines 146-149: any exception of acquire_for_decode in the extra
\* pass puts the item back and ends the pass
OnFailExtra(S, it, outcome) ==
  LET S1 == [enqueue_decode(S, it.req_id, reqs[it.req_id]) EXCEPT !.requeues = @ + 1]
  IN IF outcome = "RateLimitError"
     THEN [S1 EXCEPT !.hist[it.req_id].rejects_extra = TRUE, !.sched = AtLoop]
     ELSE [S1 EXCEPT !.sched = AtLoop]

\* run(), lines 129-130 / 150-151: the handle is held, decode_stream(ctx) starts
StartStream(S, it, mode, extra) ==
  [S EXCEPT !.hist[it.req_id].acquired = @ + 1,
            !.hist[it.req_id].decode_calls = @ + 1,
            !.sched = [AtLoop EXCEPT !.pc = "decode", !.item = it, !.mode = mode,
                                     !.extra = extra]]

\* run(), lines 112-127 / 144-149: acquire_for_decode for a popped decode item
BeginDecode(S, it, mode, extra) ==
  LET ctx == reqs[it.req_id]
      t == BucketOf(ctx.tenant)
      a == AcquireForDecode(S.buckets, S.sems, semq, ctx.tenant, ctx.est_tokens)
      S1 == [S EXCEPT !.buckets = a.buckets, !.sems = a.sems]
  IN CASE a.outcome = "handle" -> StartStream(S1, it, mode, extra)
       [] a.outcome = "sleep" ->
            [S1 EXCEPT !.sched = [pc |-> "acq_sleep", item |-> it, mode |-> mode,
                                  extra |-> extra, start |-> now,
                                  deficit |-> ctx.est_tokens - a.buckets[t].tokens]]
       [] a.outcome = "wait_sem" ->
            [S1 EXCEPT !.sched = [AtLoop EXCEPT !.pc = "acq_wait", !.item = it,
                                                !.mode = mode, !.extra = extra]]
       [] OTHER ->
            IF mode = "extra" THEN OnFailExtra(S1, it, a.outcome)
            ELSE IF a.outcome = "RateLimitRetry" THEN OnRetryMain(S1, it)
            ELSE OnRejectMain(S1, it)

\* next((i for i, it in enumerate(self.q) if it.kind == "decode"), None), 1-based
HasDecode(heap) == \E i \in 1..Len(heap) : heap[i].kind = "decode"
NextDecode(heap) ==
  CHOOSE i \in 1..Len(heap) :
    /\ heap[i].kind = "decode"
    /\ \A j \in 1..(i - 1) : heap[j].kind # "decode"

\* run(), lines 136-156: the extra-decode pass with `extra` slots left, up to
\* its next suspension
ExtraPass(S, extra) ==
  IF extra > 0 /\ HasDecode(S.q)
  THEN LET i == NextDecode(S.q)
           it2 == S.q[i]
       IN BeginDecode([S EXCEPT !.q = heapify(ListPop(S.q, i - 1))], it2, "extra", extra)
  ELSE [S EXCEPT !.sched = AtLoop]

\* the extra pass never counting down its slots
AfterDecode_NoCount(S) == ExtraPass(S, cfg.min_decode_slots - 1)

\* what follows a decode step whose handle has been released
AfterDecode(S) ==
  IF S.sched.mode = "main" THEN ExtraPass(S, cfg.min_decode_slots - 1)
  ELSE ExtraPass(S, S.sched.extra - 1)

\* run(), lines 130-134 / 151-155: the stream is exhausted
EndStream(S) ==
  LET rid == S.sched.item.req_id
  IN AfterDecode(handle_release(done_set(S, rid), rid))

\* the stream loop without its finally: a raising stream keeps the handle
RaiseInStream_NoFinally(S) ==
  [S EXCEPT !.sched = [AtLoop EXCEPT !.pc = "crashed"]]

\* run(), lines 129-134 / 150-155: decode_stream raises; the finally releases
\* the handle and the exception leaves run()
RaiseInStream(S) ==
  LET rid == S.sched.item.req_id
  IN [handle_release(S, rid) EXCEPT !.sched = [AtLoop EXCEPT !.pc = "crashed"]]

\* await ctx.out_q.put(delta)
put_delta(S, delta) ==
  LET rid == S.sched.item.req_id
  IN [S EXCEPT !.out_q[rid] = Append(@, delta), !.hist[rid].produced = Append(@, delta)]

\* the chunk test with <= : one chunk too many when C divides E
AfterPrefill_OneMore(S, it) ==
  LET ctx == reqs[it.req_id]
      off2 == it.offset + cfg.prefill_chunk_tokens
      S1 == [S EXCEPT !.hist[it.req_id].prefill_calls = Append(@, it.offset),
                      !.sched = AtLoop]
  IN IF off2 <= ctx.est_tokens /\ cfg.chunked_prefill
     THEN enqueue_prefill(S1, it.req_id, ctx, off2)
     ELSE enqueue_decode(S1, it.req_id, ctx)

\* run(), lines 105-109: after prefill_chunk returned
AfterPrefill(S, it) ==
  LET ctx == reqs[it.req_id]
      off2 == it.offset + cfg.prefill_chunk_tokens
      S1 == [S EXCEPT !.hist[it.req_id].prefill_calls = Append(@, it.offset),
                      !.sched = AtLoop]
  IN IF off2 < ctx.est_tokens /\ cfg.chunked_prefill
     THEN enqueue_prefill(S1, it.req_id, ctx, off2)
     ELSE enqueue_decode(S1, it.req_id, ctx)

\* whether the backend call of prefill_chunk can fail: only the gRPC callback
\* calls a backend (the local one is asyncio.sleep(0), the vLLM one returns)
PrefillOutcomes == IF cfg.backend = "grpc" THEN BOOLEAN ELSE {FALSE}

\* a failed prefill RPC leaving run() as an exception
PrefillReturned_Propagate(S, it, failed) ==
  IF failed
  THEN [S EXCEPT !.hist[it.req_id].prefill_failed = TRUE,
                 !.sched = [AtLoop EXCEPT !.pc = "crashed"]]
  ELSE AfterPrefill(S, it)

\* router.py lines 88-96 and run(), lines 104-109: the callback returns
\* normally whether or not its RPC failed, and the loop goes on
PrefillReturned(S, it, failed) ==
  AfterPrefill([S EXCEPT !.hist[it.req_id].prefill_failed = failed], it)

Apply(S) ==
  /\ q' = S.q
  /\ arrival' = S.arrival
  /\ buckets' = S.buckets
  /\ sems' = S.sems
  /\ done' = S.done
  /\ out_q' = S.out_q
  /\ sched' = S.sched
  /\ hist' = S.hist
  /\ S.requeues <= MaxRequeue
  /\ requeues' = S.requeues

\* ---------------------------------------------------------------- Router
\* submit_and_stream, lines 296-322, from the top of `while True` up to the
\* next suspension: "returned" (break, then the finally finds out_q empty),
\* "wait" (out_q.get() on an empty queue) or "yield" (a fragment handed over)
\* the loop leaving on `done` alone: the finally drains what is buffered
\* without yielding it
RelayRun_BreakOnDone(isdone, queue, ys) ==
  IF isdone
  THEN [pc |-> "returned", out_q |-> <<>>, yielded |-> ys]
  ELSE IF queue = <<>>
  THEN [pc |-> "wait", out_q |-> queue, yielded |-> ys]
  ELSE [pc |-> "yield", out_q |-> Tail(queue), yielded |-> Append(ys, Head(queue))]

\* the loop surfacing a stream that ended with nothing yielded as an error
RelayRun_RaiseWhenEmpty(isdone, queue, ys) ==
  IF isdone /\ SelectSeq(queue, LAMBDA f : f # 0) = <<>>
  THEN [pc |-> IF ys = <<>> THEN "raised" ELSE "returned", out_q |-> <<>>,
        yielded |-> ys]
  ELSE IF queue = <<>>
  THEN [pc |-> "wait", out_q |-> queue, yielded |-> ys]
  ELSE IF Head(queue) = 0
  THEN [pc |-> "wait", out_q |-> Tail(queue), yielded |-> ys]
  ELSE [pc |-> "yield", out_q |-> Tail(queue), yielded |-> Append(ys, Head(queue))]

RECURSIVE RelayRun(_, _, _)
RelayRun(isdone, queue, ys) ==
  IF isdone /\ queue = <<>>
  THEN [pc |-> "returned", out_q |-> queue, yielded |-> ys]
  ELSE IF queue = <<>>
  THEN [pc |-> "wait", out_q |-> queue, yielded |-> ys]
  ELSE IF Head(queue) = 0
  THEN RelayRun(isdone, Tail(queue), ys)
  ELSE [pc |-> "yield", out_q |-> Tail(queue), yielded |-> Append(ys, Head(queue))]

Reqs == 1..MaxReqs

NoHist == [prefill_calls |-> <<>>, decode_calls |-> 0, acquired |-> 0,
           released |-> 0, done_sets |-> 0, produced |-> <<>>,
           rejects_main |-> FALSE, rejects_extra |-> FALSE,
           prefill_failed |-> FALSE]   \* the last prefill_chunk call failed

Manifests ==
  {[rate_limits |-> [t \in Buckets |-> IF t = "t1" THEN c ELSE DefaultRateLimitCfg],
    penalty_window |-> 1,            \* penalty_window_ms = 1000
    fair_share |-> ("t1" :> 2),      \* tenants: {t1: {weight: 2}}
    chunked_prefill |-> TRUE,
    prefill_chunk_tokens |-> 2,
    min_decode_slots |-> MinDecodeSlots,
    prefix_awareness |-> TRUE,
    aging_seconds |-> 1,
    backend |-> b] :
   c \in T1RateLimitCfgs, b \in Backends}

\* Router.__init__, RateLimiter.__init__, FairShareScheduler.__init__
Init ==
  /\ cfg \in Manifests
  /\ now = 0
  /\ buckets = [t \in Buckets |->
                  [tokens |-> BurstOf(cfg.rate_limits[t]), last_ts |-> 0]]
  /\ sems = [t \in Buckets |-> SlotsOf(cfg.rate_limits[t])]
  /\ semq = [t \in Buckets |-> <<>>]
  /\ lru = <<>>
  /\ arrival = 0
  /\ q = <<>>
  /\ reqs = <<>>
  /\ out_q = [r \in Reqs |-> <<>>]
  /\ done = [r \in Reqs |-> FALSE]
  /\ sched = AtLoop
  /\ relay = [r \in Reqs |-> "idle"]
  /\ yielded = [r \in Reqs |-> <<>>]
  /\ hist = [r \in Reqs |-> NoHist]
  /\ requeues = 0
  /\ callers = <<>>

\* FairShareScheduler.submit: the RequestCtx created
NewCtx(tenant, est_tokens, p_hit, a) ==
  [tenant |-> tenant, est_tokens |-> Max(1, est_tokens), prefix_hit_prob |-> p_hit,
   created_ts |-> now, penalty_mult |-> a.penalty_multiplier,
   penalty_expires |-> a.penalty_expires_at]

\* Router.submit_and_stream, lines 270-273: reject at submission
RejectAtSubmit(a) == a.policy = "reject" /\ a.tokens_deficit > 0

\* the request id (uuid4) the next submit_and_stream call gets: its index
NextCall ==
  CHOOSE c \in Reqs : relay[c] = "idle" /\ \A d \in 1..(c - 1) : relay[d] # "idle"

\* Router.submit_and_stream called with (prompt, tenant), up to its first
\* suspension
SubmitAndStream(tenant, prompt) ==
  /\ \E c \in Reqs : relay[c] = "idle"
  /\ LET rid == NextCall
         est == EstimateTokens(prompt)
         a == Assess(buckets, tenant, est)
         ctx == NewCtx(tenant, est, ObserveProb(lru, prompt), a)
         S == enqueue_prefill([SchedState EXCEPT !.buckets = AssessBuckets(buckets, tenant)],
                              rid, ctx, 0)
     IN /\ lru' = ObserveLru(lru, prompt, MaxEntries)
        /\ IF RejectAtSubmit(a)
           THEN /\ relay' = [relay EXCEPT ![rid] = "raised"]
                /\ buckets' = AssessBuckets(buckets, tenant)
                /\ UNCHANGED <<reqs, q, arrival, sems, done, out_q, sched, hist, requeues>>
           ELSE /\ relay' = [relay EXCEPT ![rid] = RelayRun(FALSE, <<>>, <<>>).pc]
                /\ reqs' = [r \in DOMAIN reqs \cup {rid} |->
                               IF r = rid THEN ctx ELSE reqs[r]]
                /\ Apply(S)
  /\ UNCHANGED <<cfg, now, semq, yielded, callers>>

\* the consumer asks a generator suspended at `yield delta` for the next item
RelayResume(rid) ==
  /\ relay[rid] = "yield"
  /\ LET r == RelayRun(done[rid], out_q[rid], yielded[rid])
     IN /\ relay' = [relay EXCEPT ![rid] = r.pc]
        /\ out_q' = [out_q EXCEPT ![rid] = r.out_q]
        /\ yielded' = [yielded EXCEPT ![rid] = r.yielded]
  /\ UNCHANGED <<cfg, now, buckets, sems, semq, lru, arrival, q, reqs, done,
                 sched, hist, requeues, callers>>

\* out_q.get() returns: a generator waiting on its empty out_q is woken by a put
RelayWake(rid) ==
  /\ relay[rid] = "wait"
  /\ out_q[rid] # <<>>
  /\ LET r == RelayRun(done[rid], out_q[rid], yielded[rid])
     IN /\ relay' = [relay EXCEPT ![rid] = r.pc]
        /\ out_q' = [out_q EXCEPT ![rid] = r.out_q]
        /\ yielded' = [yielded EXCEPT ![rid] = r.yielded]
  /\ UNCHANGED <<cfg, now, buckets, sems, semq, lru, arrival, q, reqs, done,
                 sched, hist, requeues, callers>>

\* ------------------------------------------- FairShareScheduler.run steps
SchedFrame == UNCHANGED <<cfg, now, semq, lru, reqs, relay, yielded, callers>>

\* lines 95-96: the queue is empty, asyncio.sleep(0.001)
SchedIdle ==
  /\ sched.pc = "loop"
  /\ q = <<>>
  /\ UNCHANGED vars

\* lines 98-127: pop the best item and run it up to the next suspension
SchedPop ==
  /\ sched.pc = "loop"
  /\ q # <<>>
  /\ LET it == q[1]
         S == [SchedState EXCEPT !.q = heappop(q)]
     IN Apply(IF it.kind = "prefill"
              THEN IF cfg.backend = "vllm"
                   THEN AfterPrefill(S, it)
                   ELSE [S EXCEPT !.sched = [AtLoop EXCEPT !.pc = "prefill", !.item = it]]
              ELSE BeginDecode(S, it, "main", 0))
  /\ SchedFrame

\* lines 104-109: prefill_chunk returned, after a successful call or after a
\* failed RPC that _RemoteCallbacks.prefill_chunk logged and swallowed
SchedPrefillReturn ==
  /\ sched.pc = "prefill"
  /\ \E failed \in PrefillOutcomes :
        Apply(PrefillReturned(SchedState, sched.item, failed))
  /\ SchedFrame

\* lines 120-122: asyncio.sleep(0.01) is over, the decode item goes back
SchedRetryWake ==
  /\ sched.pc = "retry_sleep"
  /\ Apply([enqueue_decode(SchedState, sched.item.req_id, reqs[sched.item.req_id])
              EXCEPT !.sched = AtLoop])
  /\ SchedFrame

\* ratelimit.py lines 122-125: policy queue wakes from its sleep with a handle
SchedAcquireWake ==
  /\ sched.pc = "acq_sleep"
  /\ LET ctx == reqs[sched.item.req_id]
         t == BucketOf(ctx.tenant)
     IN /\ SleepOver(t, sched.start, sched.deficit)
        /\ Apply(StartStream([SchedState EXCEPT
                                !.buckets = AfterSleep(buckets, t, ctx.est_tokens)],
                             sched.item, sched.mode, sched.extra))
  /\ SchedFrame

\* a remote backend (gRPC, vLLM SSE) delivers one fragment; delta 0 is ""
SchedDecodeFragment(delta) ==
  /\ sched.pc = "decode"
  /\ cfg.backend # "local"
  /\ Len(hist[sched.item.req_id].produced) < MaxFrags
  /\ delta \in {0, Len(hist[sched.item.req_id].produced) + 1}
  /\ Apply(put_delta(SchedState, delta))
  /\ SchedFrame

\* a remote backend's stream ends (cleanly, or by a failure its callback swallows)
SchedDecodeEnd ==
  /\ sched.pc = "decode"
  /\ cfg.backend # "local"
  /\ Apply(EndStream(SchedState))
  /\ SchedFrame

RECURSIVE PutChunks(_, _, _)
PutChunks(S, k, n) == IF k > n THEN S ELSE PutChunks(put_delta(S, k), k + 1, n)

\* the local engine returns its text: stream_text yields its n chunks (all
\* non-empty) without suspending, so the puts and done.set() are one step
SchedDecodeLocal(n) ==
  /\ sched.pc = "decode"
  /\ cfg.backend = "local"
  /\ Apply(EndStream(PutChunks(SchedState, 1, n)))
  /\ SchedFrame

\* the local engine raises: _RouterCallbacks.decode_stream has no try/except
SchedDecodeRaise ==
  /\ sched.pc = "decode"
  /\ cfg.backend = "local"
  /\ Apply(RaiseInStream(SchedState))
  /\ SchedFrame

\* the clocks advance
Tick ==
  /\ now < MaxTime
  /\ now' = now + 1
  /\ UNCHANGED <<cfg, buckets, sems, semq, lru, arrival, q, reqs, out_q, done,
                 sched, relay, yielded, hist, requeues, callers>>

Next ==
  \/ \E tenant \in RequestTenants, prompt \in Prompts : SubmitAndStream(tenant, prompt)
  \/ \E rid \in Reqs : RelayResume(rid)
  \/ \E rid \in Reqs : RelayWake(rid)
  \/ SchedIdle
  \/ SchedPop
  \/ SchedPrefillReturn
  \/ SchedRetryWake
  \/ SchedAcquireWake
  \/ \E delta \in 0..MaxFrags : SchedDecodeFragment(delta)
  \/ SchedDecodeEnd
  \/ \E n \in 0..MaxChunks : SchedDecodeLocal(n)
  \/ SchedDecodeRaise
  \/ Tick

Spec == Init /\ [][Next]_vars

\* ------------------------------------------------ prefill policies
\* Manifests that vary the prefill policy: chunked prefill with one-token
\* chunks, and chunked prefill switched off.
PrefillManifests ==
  {[rate_limits |-> [t \in Buckets |->
                       IF t = "t1"
                       THEN [tokens_per_sec |-> 1, burst |-> 3, max_concurrency |-> 1,
                             on_exhaustion |-> p]
                       ELSE DefaultRateLimitCfg],
    penalty_window |-> 1,
    fair_share |-> ("t1" :> 2),
    chunked_prefill |-> ch,
    prefill_chunk_tokens |-> IF ch THEN 1 ELSE 2,
    min_decode_slots |-> MinDecodeSlots,
    prefix_awareness |-> TRUE,
    aging_seconds |-> 1,
    backend |-> b] :
   p \in {"deprioritize", "queue"}, ch \in BOOLEAN, b \in {"local", "vllm"}}

PrefillInit ==
  /\ cfg \in PrefillManifests
  /\ now = 0
  /\ buckets = [t \in Buckets |->
                  [tokens |-> BurstOf(cfg.rate_limits[t]), last_ts |-> 0]]
  /\ sems = [t \in Buckets |-> SlotsOf(cfg.rate_limits[t])]
  /\ semq = [t \in Buckets |-> <<>>]
  /\ lru = <<>>
  /\ arrival = 0
  /\ q = <<>>
  /\ reqs = <<>>
  /\ out_q = [r \in Reqs |-> <<>>]
  /\ done = [r \in Reqs |-> FALSE]
  /\ sched = AtLoop
  /\ relay = [r \in Reqs |-> "idle"]
  /\ yielded = [r \in Reqs |-> <<>>]
  /\ hist = [r \in Reqs |-> NoHist]
  /\ requeues = 0
  /\ callers = <<>>

PrefillSpec == PrefillInit /\ [][Next]_vars

\* ------------------------------------- FairShareScheduler, called directly
\* the smallest unused index stands for the fresh uuid4 of a submit call
FreshId ==
  CHOOSE r \in DOMAIN done : r \notin DOMAIN reqs /\ \A d \in 1..(r - 1) : d \in DOMAIN reqs

\* submit storing est_tokens as given
submit_NoClamp(tenant, est_tokens, prefix_hit_prob, penalty_mult, penalty_expire) ==
  /\ \E r \in DOMAIN done : r \notin DOMAIN reqs
  /\ LET rid == FreshId
         ctx == [tenant |-> tenant, est_tokens |-> est_tokens,
                 prefix_hit_prob |-> prefix_hit_prob, created_ts |-> now,
                 penalty_mult |-> penalty_mult, penalty_expires |-> penalty_expire]
     IN /\ reqs' = [r \in DOMAIN reqs \cup {rid} |-> IF r = rid THEN ctx ELSE reqs[r]]
        /\ Apply(enqueue_prefill(SchedState, rid, ctx, 0))
  /\ UNCHANGED <<cfg, now, semq, lru, relay, yielded, callers>>

\* submit clamping est_tokens at 0 instead of 1
submit_ClampAtZero(tenant, est_tokens, prefix_hit_prob, penalty_mult, penalty_expire) ==
  /\ \E r \in DOMAIN done : r \notin DOMAIN reqs
  /\ LET rid == FreshId
         ctx == [tenant |-> tenant, est_tokens |-> Max(0, est_tokens),
                 prefix_hit_prob |-> prefix_hit_prob, created_ts |-> now,
                 penalty_mult |-> penalty_mult, penalty_expires |-> penalty_expire]
     IN /\ reqs' = [r \in DOMAIN reqs \cup {rid} |-> IF r = rid THEN ctx ELSE reqs[r]]
        /\ Apply(enqueue_prefill(SchedState, rid, ctx, 0))
  /\ UNCHANGED <<cfg, now, semq, lru, relay, yielded, callers>>

\* FairShareScheduler.submit
submit(tenant, est_tokens, prefix_hit_prob, penalty_mult, penalty_expire) ==
  /\ \E r \in DOMAIN done : r \notin DOMAIN reqs
  /\ LET rid == FreshId
         ctx == [tenant |-> tenant, est_tokens |-> Max(1, est_tokens),
                 prefix_hit_prob |-> prefix_hit_prob, created_ts |-> now,
                 penalty_mult |-> penalty_mult, penalty_expires |-> penalty_expire]
     IN /\ reqs' = [r \in DOMAIN reqs \cup {rid} |-> IF r = rid THEN ctx ELSE reqs[r]]
        /\ Apply(enqueue_prefill(SchedState, rid, ctx, 0))
  /\ UNCHANGED <<cfg, now, semq, lru, relay, yielded, callers>>

\* the steps of the scheduler task against a remote backend
SchedStep ==
  \/ SchedIdle
  \/ SchedPop
  \/ SchedPrefillReturn
  \/ \E delta \in 0..MaxFrags : SchedDecodeFragment(delta)
  \/ SchedDecodeEnd

\* ------------------------------------------------ an endless workload
\* Callers that keep submitting: when a request is done its index is used
\* again for a later request (which gets a fresh uuid in the program).  To
\* keep the state finite the step that frees an index renumbers the arrival
\* ids of the queued items by rank (ids are only ever compared with each
\* other) and caps the semaphore values at their initial ones (a value is
\* only tested for 0, and each finished decode leaves it one higher).
StarveManifests ==
  {[rate_limits |-> [t \in Buckets |-> DefaultRateLimitCfg],
    penalty_window |-> 1,
    fair_share |-> ("t1" :> 2),
    chunked_prefill |-> TRUE,
    prefill_chunk_tokens |-> 2,
    min_decode_slots |-> MinDecodeSlots,
    prefix_awareness |-> TRUE,
    aging_seconds |-> 1,
    backend |-> "grpc"]}

StarveInit ==
  /\ cfg \in StarveManifests
  /\ now = 0
  /\ buckets = [t \in Buckets |->
                  [tokens |-> BurstOf(cfg.rate_limits[t]), last_ts |-> 0]]
  /\ sems = [t \in Buckets |-> SlotsOf(cfg.rate_limits[t])]
  /\ semq = [t \in Buckets |-> <<>>]
  /\ lru = <<>>
  /\ arrival = 0
  /\ q = <<>>
  /\ reqs = <<>>
  /\ out_q = [r \in Reqs |-> <<>>]
  /\ done = [r \in Reqs |-> FALSE]
  /\ sched = AtLoop
  /\ relay = [r \in Reqs |-> "idle"]
  /\ yielded = [r \in Reqs |-> <<>>]
  /\ hist = [r \in Reqs |-> NoHist]
  /\ requeues = 0
  /\ callers = <<>>

\* the rank of item i of the heap array by arrival id
ArrivalRank(heap, i) ==
  Cardinality({j \in 1..Len(heap) : heap[j].arrival_id <= heap[i].arrival_id})

\* the caller of the finished request rid drops it
CallerLeaves(rid) ==
  /\ rid \in DOMAIN reqs
  /\ done[rid]
  /\ sched.pc = "loop"
  /\ reqs' = [r \in DOMAIN reqs \ {rid} |-> reqs[r]]
  /\ out_q' = [out_q EXCEPT ![rid] = <<>>]
  /\ done' = [done EXCEPT ![rid] = FALSE]
  /\ hist' = [hist EXCEPT ![rid] = NoHist]
  /\ q' = [i \in 1..Len(q) |-> [q[i] EXCEPT !.arrival_id = ArrivalRank(q, i)]]
  /\ arrival' = Len(q)
  /\ sems' = [t \in Buckets |-> Min(sems[t], SlotsOf(cfg.rate_limits[t]))]
  /\ UNCHANGED <<cfg, now, buckets, semq, lru, sched, relay, yielded, requeues, callers>>

StarveNext ==
  \/ \E tenant \in RequestTenants, est_tokens \in {1, 3} :
        submit(tenant, est_tokens, 1, [n |-> 1, d |-> 1], 0)
  \/ \E rid \in Reqs : CallerLeaves(rid)
  \/ SchedStep
  \/ Tick

\* the scheduler task keeps running
StarveSpec == StarveInit /\ [][StarveNext]_vars /\ WF_vars(SchedStep)

\* ------------------------------------------------ a crowded queue
\* Up to MaxQueued requests submitted to the scheduler directly, so that
\* several items wait in the queue while a decode stream runs.
QueueManifests ==
  {[rate_limits |-> [t \in Buckets |-> DefaultRateLimitCfg],
    penalty_window |-> 1,
    fair_share |-> ("t1" :> 2),
    chunked_prefill |-> FALSE,
    prefill_chunk_tokens |-> 2,
    min_decode_slots |-> MinDecodeSlots,
    prefix_awareness |-> TRUE,
    aging_seconds |-> ag,
    backend |-> "grpc"] : ag \in {0, 1}}

QueueInit ==
  /\ cfg \in QueueManifests
  /\ now = 0
  /\ buckets = [t \in Buckets |->
                  [tokens |-> BurstOf(cfg.rate_limits[t]), last_ts |-> 0]]
  /\ sems = [t \in Buckets |-> SlotsOf(cfg.rate_limits[t])]
  /\ semq = [t \in Buckets |-> <<>>]
  /\ lru = <<>>
  /\ arrival = 0
  /\ q = <<>>
  /\ reqs = <<>>
  /\ out_q = [r \in 1..MaxQueued |-> <<>>]
  /\ done = [r \in 1..MaxQueued |-> FALSE]
  /\ sched = AtLoop
  /\ relay = [r \in 1..MaxQueued |-> "idle"]
  /\ yielded = [r \in 1..MaxQueued |-> <<>>]
  /\ hist = [r \in 1..MaxQueued |-> NoHist]
  /\ requeues = 0
  /\ callers = <<>>

\* est_tokens passed to submit: 0 is raised to 1; 0.9 / 27 = 1 / 30
SubmitEsts == {0, 27, 30}
SubmitTenants == {"t2"}

QueueNext ==
  \/ \E tenant \in SubmitTenants, est_tokens \in SubmitEsts :
        submit(tenant, est_tokens, 1, [n |-> 1, d |-> 1], 0)
  \/ SchedStep
  \/ Tick

QueueSpec == QueueInit /\ [][QueueNext]_vars

\* ------------------------------------- a scheduler that is never stopped
\* Finitely many requests submitted to a scheduler whose task, and whose
\* clock, keep running.  Time is kept relative to the present: `now` stays 0
\* and a second passing moves every timestamp one second into the past, down
\* to the age beyond which the refill, the aging factor or the sleep that
\* reads it does not change any more.
DoneManifests ==
  {[rate_limits |-> ("t1" :> [tokens_per_sec |-> 1, burst |-> 1, max_concurrency |-> 1,
                              on_exhaustion |-> p])
                      @@ ("default" :> DefaultRateLimitCfg),
    penalty_window |-> 1,
    fair_share |-> ("t1" :> 2),
    chunked_prefill |-> TRUE,
    prefill_chunk_tokens |-> 2,
    min_decode_slots |-> MinDecodeSlots,
    prefix_awareness |-> TRUE,
    aging_seconds |-> 1,
    backend |-> "grpc"] : p \in Policies}

DoneInit ==
  /\ cfg \in DoneManifests
  /\ now = 0
  /\ buckets = [t \in Buckets |->
                  [tokens |-> BurstOf(cfg.rate_limits[t]), last_ts |-> 0]]
  /\ sems = [t \in Buckets |-> SlotsOf(cfg.rate_limits[t])]
  /\ semq = [t \in Buckets |-> <<>>]
  /\ lru = <<>>
  /\ arrival = 0
  /\ q = <<>>
  /\ reqs = <<>>
  /\ out_q = [r \in Reqs |-> <<>>]
  /\ done = [r \in Reqs |-> FALSE]
  /\ sched = AtLoop
  /\ relay = [r \in Reqs |-> "idle"]
  /\ yielded = [r \in Reqs |-> <<>>]
  /\ hist = [r \in Reqs |-> NoHist]
  /\ requeues = 0
  /\ callers = <<>>

\* a timestamp one second later, followed up to the age `horizon`
Earlier(ts, horizon) == Max(ts - 1, 0 - horizon)

\* one second passes
SecondPasses ==
  /\ buckets' = [t \in Buckets |->
                   IF RlCfg(t).tokens_per_sec > 0
                   THEN [buckets[t] EXCEPT
                           !.last_ts = Earlier(@, BurstOf(RlCfg(t)))]
                   ELSE buckets[t]]
  /\ reqs' = [r \in DOMAIN reqs |->
                [reqs[r] EXCEPT !.created_ts = Earlier(@, cfg.aging_seconds)]]
  /\ sched' = IF sched.pc = "acq_sleep"
              THEN [sched EXCEPT !.start = Earlier(@, SleepCap)]
              ELSE sched
  /\ UNCHANGED <<cfg, now, sems, semq, lru, arrival, q, out_q, done, relay,
                 yielded, hist, requeues, callers>>

\* arrival ids are replaced by their ranks, the count of re-enqueues is
\* dropped and the slots a failed acquire added beyond max_concurrency are
\* forgotten: no comparison the scheduler or the gate makes depends on them
Renumber ==
  /\ requeues # 0
  /\ q' = [i \in 1..Len(q) |-> [q[i] EXCEPT !.arrival_id = ArrivalRank(q, i)]]
  /\ arrival' = Len(q)
  /\ requeues' = 0
  /\ sems' = [t \in Buckets |-> Min(sems[t], SlotsOf(cfg.rate_limits[t]))]
  /\ UNCHANGED <<cfg, now, buckets, semq, lru, reqs, out_q, done, sched,
                 relay, yielded, hist, callers>>

\* the steps of the scheduler task, rate limits included
SchedRun == SchedStep \/ SchedRetryWake \/ SchedAcquireWake

DoneNext ==
  \/ \E est_tokens \in {1, 2} : submit("t1", est_tokens, 1, [n |-> 1, d |-> 1], 0)
  \/ SchedRun
  \/ SecondPasses
  \/ Renumber

DoneSpec ==
  DoneInit /\ [][DoneNext]_vars
    /\ WF_vars(SchedRun) /\ WF_vars(SecondPasses) /\ WF_vars(Renumber)

\* ------------------------------------------------ the size of a request
\* The two ways est_tokens reaches submit: computed by the router from the
\* prompt, or passed by a direct caller.  Every value below 1 and every
\* prompt shorter than 4 characters is in the input sets, and no input is 1.
ShortPrompts == [len : {0, 3, 12}, body : {1}]
DirectEsts == {-2, 0, 3}

\* Router.submit_and_stream, est_tokens and the submit call it is passed to
RouterSubmit(tenant, prompt) ==
  submit(tenant, EstimateTokens(prompt), 1, [n |-> 1, d |-> 1], 0)

EstNext ==
  \/ \E tenant \in RequestTenants, prompt \in ShortPrompts : RouterSubmit(tenant, prompt)
  \/ \E tenant \in RequestTenants, est_tokens \in DirectEsts :
        submit(tenant, est_tokens, 1, [n |-> 1, d |-> 1], 0)
  \/ SchedStep
  \/ Tick

EstSpec == StarveInit /\ [][EstNext]_vars

\* ------------------------------------------------ the score of a context
\* Two request contexts that differ in at most one attribute, scored at the
\* same instant by _enqueue_prefill or _enqueue_decode.  created_ts -1 is a
\* wait longer than aging_seconds, created_ts 2 a timestamp later than now.
ScoreCtxs ==
  [tenant : RequestTenants, est_tokens : {1, 3}, prefix_hit_prob : {1, 5, 6},
   created_ts : {-1, 0, 2},
   penalty_mult : {[n |-> 1, d |-> 1], [n |-> PenaltyNum, d |-> PenaltyDen]},
   penalty_expires : {0, 1}]

\* ctx, and ctx with another tenant, prefix-hit probability or creation time
Variants(ctx) ==
  {[ctx EXCEPT !.tenant = t] : t \in RequestTenants}
     \cup {[ctx EXCEPT !.prefix_hit_prob = h] : h \in {1, 5, 6}}
     \cup {[ctx EXCEPT !.created_ts = c] : c \in {-1, 0, 2}}

ScoreManifests ==
  {[rate_limits |-> [t \in Buckets |-> DefaultRateLimitCfg],
    penalty_window |-> 1,
    fair_share |-> ("t1" :> w),
    chunked_prefill |-> TRUE,
    prefill_chunk_tokens |-> 2,
    min_decode_slots |-> MinDecodeSlots,
    prefix_awareness |-> pa,
    aging_seconds |-> ag,
    backend |-> "grpc"] : w \in {1, 2}, pa \in BOOLEAN, ag \in {0, 1}}

ScoreInit ==
  /\ cfg \in ScoreManifests
  /\ now \in 0..MaxTime
  /\ buckets = [t \in Buckets |->
                  [tokens |-> BurstOf(cfg.rate_limits[t]), last_ts |-> 0]]
  /\ sems = [t \in Buckets |-> SlotsOf(cfg.rate_limits[t])]
  /\ semq = [t \in Buckets |-> <<>>]
  /\ lru = <<>>
  /\ arrival = 0
  /\ q = <<>>
  /\ \E c1 \in ScoreCtxs : \E c2 \in Variants(c1) : reqs = <<c1, c2>>
  /\ out_q = [r \in Reqs |-> <<>>]
  /\ done = [r \in Reqs |-> FALSE]
  /\ sched = AtLoop
  /\ relay = [r \in Reqs |-> "idle"]
  /\ yielded = [r \in Reqs |-> <<>>]
  /\ hist = [r \in Reqs |-> NoHist]
  /\ requeues = 0
  /\ callers = <<>>

\* _enqueue_prefill(ctx) for both contexts
EnqueuePrefills ==
  /\ q = <<>>
  /\ Apply(enqueue_prefill(enqueue_prefill(SchedState, 1, reqs[1], 0), 2, reqs[2], 0))
  /\ UNCHANGED <<cfg, now, semq, lru, reqs, relay, yielded, callers>>

\* _enqueue_decode(ctx) for both contexts
EnqueueDecodes ==
  /\ q = <<>>
  /\ Apply(enqueue_decode(enqueue_decode(SchedState, 1, reqs[1]), 2, reqs[2]))
  /\ UNCHANGED <<cfg, now, semq, lru, reqs, relay, yielded, callers>>

ScoreNext == EnqueuePrefills \/ EnqueueDecodes

ScoreSpec == ScoreInit /\ [][ScoreNext]_vars

\* ------------------------------------------------ four requests in the heap
\* Four direct submits of growing size.  A submit runs only while the loop
\* is suspended: in its idle sleep (the queue is empty), in a prefill call
\* or in a decode stream.  Two decode items and a prefill item can then wait
\* while a third decode streams.
HeapEsts == <<1, 27, 30, 40>>

HeapInit ==
  /\ cfg \in QueueManifests
  /\ now = 0
  /\ buckets = [t \in Buckets |->
                  [tokens |-> BurstOf(cfg.rate_limits[t]), last_ts |-> 0]]
  /\ sems = [t \in Buckets |-> SlotsOf(cfg.rate_limits[t])]
  /\ semq = [t \in Buckets |-> <<>>]
  /\ lru = <<>>
  /\ arrival = 0
  /\ q = <<>>
  /\ reqs = <<>>
  /\ out_q = [r \in 1..MaxHeap |-> <<>>]
  /\ done = [r \in 1..MaxHeap |-> FALSE]
  /\ sched = AtLoop
  /\ relay = [r \in Reqs |-> "idle"]
  /\ yielded = [r \in Reqs |-> <<>>]
  /\ hist = [r \in 1..MaxHeap |-> NoHist]
  /\ requeues = 0
  /\ callers = <<>>

HeapNext ==
  \/ \E est_tokens \in {HeapEsts[Min(Len(reqs) + 1, MaxHeap)]} :
        /\ sched.pc = "loop" => q = <<>>
        /\ submit("t2", est_tokens, 1, [n |-> 1, d |-> 1], 0)
  \/ SchedStep

HeapSpec == HeapInit /\ [][HeapNext]_vars

\* ------------------------------------------- PrefixHeuristic, called directly
\* One PrefixHeuristic(max_entries) with a small capacity and a caller that
\* observes prompts; in this specification `callers` is the list of the
\* prompts observed so far, in call order, each with the probability (in
\* tenths) its observe call returned.  Prompts of 600 and 700 characters
\* share their first 512 characters and so their fingerprint.
PrefixPrompts == [len : {0, 12, 600, 700}, body : {1}]

PrefixInit ==
  /\ cfg \in {[max_entries |-> m] : m \in 1..MaxCapacity}
  /\ now = 0
  /\ buckets = [t \in Buckets |-> [tokens |-> 0, last_ts |-> 0]]
  /\ sems = [t \in Buckets |-> 0]
  /\ semq = [t \in Buckets |-> <<>>]
  /\ lru = <<>>
  /\ arrival = 0
  /\ q = <<>>
  /\ reqs = <<>>
  /\ out_q = [r \in Reqs |-> <<>>]
  /\ done = [r \in Reqs |-> FALSE]
  /\ sched = AtLoop
  /\ relay = [r \in Reqs |-> "idle"]
  /\ yielded = [r \in Reqs |-> <<>>]
  /\ hist = [r \in Reqs |-> NoHist]
  /\ requeues = 0
  /\ callers = <<>>

\* PrefixHeuristic.observe(prompt)
Observe(prompt) ==
  /\ Len(callers) < MaxObserves
  /\ lru' = ObserveLru(lru, prompt, cfg.max_entries)
  /\ callers' = Append(callers, [len |-> prompt.len, body |-> prompt.body,
                                  prob |-> ObserveProb(lru, prompt)])
  /\ UNCHANGED <<cfg, now, buckets, sems, semq, arrival, q, reqs, out_q, done,
                 sched, relay, yielded, hist, requeues>>

PrefixNext == \E prompt \in PrefixPrompts : Observe(prompt)

PrefixSpec == PrefixInit /\ [][PrefixNext]_vars

\* ------------------------------------------- RateLimiter, called directly
\* Tasks that call RateLimiter.acquire_for_decode and release the handle
\* themselves, with no scheduler in between.
Callers == 1..MaxCallers
Costs == {1, 2}

NoAssessment ==
  [tenant |-> "default", penalty_multiplier |-> [n |-> 1, d |-> 1],
   penalty_expires_at |-> 0, tokens_deficit |-> 0, policy |-> "none"]

NoCall == [pc |-> "idle", tenant |-> "default", cost |-> 0, exc |-> "",
           reason |-> "", start |-> 0, deficit |-> 0, assessment |-> NoAssessment]

\* the rate_limits entries drawn for tenant t1 when the limiter is called directly
RLT1RateLimitCfgs ==
  [tokens_per_sec : {0, 1}, burst : {1}, max_concurrency : {1},
   on_exhaustion : Policies]

RLManifests ==
  {[rate_limits |-> ("t1" :> c) @@ ("default" :> DefaultRateLimitCfg),
    penalty_window |-> 1, fair_share |-> ("t1" :> 2), chunked_prefill |-> TRUE,
    prefill_chunk_tokens |-> 2, min_decode_slots |-> MinDecodeSlots,
    prefix_awareness |-> TRUE, aging_seconds |-> 1, backend |-> "local"] :
     c \in RLT1RateLimitCfgs}

\* RateLimiter.__init__
RLInit ==
  /\ cfg \in RLManifests
  /\ now = 0
  /\ buckets = [t \in Buckets |->
                  [tokens |-> BurstOf(cfg.rate_limits[t]), last_ts |-> 0]]
  /\ sems = [t \in Buckets |-> SlotsOf(cfg.rate_limits[t])]
  /\ semq = [t \in Buckets |-> <<>>]
  /\ lru = <<>>
  /\ arrival = 0
  /\ q = <<>>
  /\ reqs = <<>>
  /\ out_q = [r \in Reqs |-> <<>>]
  /\ done = [r \in Reqs |-> FALSE]
  /\ sched = AtLoop
  /\ relay = [r \in Reqs |-> "idle"]
  /\ yielded = [r \in Reqs |-> <<>>]
  /\ hist = [r \in Reqs |-> NoHist]
  /\ requeues = 0
  /\ callers = [c \in Callers |-> NoCall]

RLFrame == UNCHANGED <<cfg, now, lru, arrival, q, reqs, out_q, done, sched,
                       relay, yielded, hist, requeues>>

\* what the caller is left with when the token-bucket half returns r
AfterTokenBucket(call, r, t) ==
  CASE r.outcome = "handle" -> [call EXCEPT !.pc = "holding"]
    [] r.outcome = "sleep" ->
         [call EXCEPT !.pc = "sleep", !.start = now,
                      !.deficit = call.cost - r.buckets[t].tokens]
    [] OTHER -> [call EXCEPT !.pc = "raised", !.exc = r.outcome, !.reason = r.reason]

\* await rate.acquire_for_decode(tenant, cost), up to its first suspension
RLAcquire(c, tenant, cost) ==
  LET t == BucketOf(tenant)
      call == [NoCall EXCEPT !.tenant = t, !.cost = cost]
      r == AcquireForDecode(buckets, sems, semq, tenant, cost)
  IN /\ callers[c].pc = "idle"
     /\ buckets' = r.buckets
     /\ sems' = r.sems
     /\ semq' = IF r.outcome = "wait_sem"
                THEN [semq EXCEPT ![t] = Append(@, [who |-> c, granted |-> FALSE])]
                ELSE semq
     /\ callers' = [callers EXCEPT ![c] =
                      IF r.outcome = "wait_sem" THEN [call EXCEPT !.pc = "wait_sem"]
                      ELSE AfterTokenBucket(call, r, t)]
     /\ RLFrame

\* policy queue: the caller woken by a release leaves Semaphore.acquire (it
\* removes its future, and wakes the next waiter if the value is positive) and
\* goes on to the token bucket
RLGranted(c) ==
  LET t == callers[c].tenant
      wq1 == [semq EXCEPT ![t] = SelectSeq(@, LAMBDA w : w.who # c)]
      wq2 == IF sems[t] > 0 THEN WakeUpNext(wq1, t) ELSE wq1
      sm2 == IF sems[t] > 0 /\ FirstWaiting(wq1[t]) # 0
             THEN [sems EXCEPT ![t] = @ - 1] ELSE sems
      r == TokenBucket(buckets, sm2, t, callers[c].cost)
  IN /\ callers[c].pc = "wait_sem"
     /\ \E i \in 1..Len(semq[t]) : semq[t][i].who = c /\ semq[t][i].granted
     /\ semq' = wq2
     /\ buckets' = r.buckets
     /\ sems' = r.sems
     /\ callers' = [callers EXCEPT ![c] = AfterTokenBucket(@, r, t)]
     /\ RLFrame

\* policy queue: asyncio.sleep(min(wait_s, 2.0)) is over
RLSleepWake(c) ==
  LET t == callers[c].tenant IN
  /\ callers[c].pc = "sleep"
  /\ SleepOver(t, callers[c].start, callers[c].deficit)
  /\ buckets' = AfterSleep(buckets, t, callers[c].cost)
  /\ callers' = [callers EXCEPT ![c].pc = "holding"]
  /\ UNCHANGED <<sems, semq>>
  /\ RLFrame

\* handle.release()
RLRelease(c) ==
  LET t == callers[c].tenant IN
  /\ callers[c].pc = "holding"
  /\ sems' = SemRelease(sems, semq, t)
  /\ semq' = WakeUpNext(semq, t)
  /\ callers' = [callers EXCEPT ![c].pc = "released"]
  /\ UNCHANGED buckets
  /\ RLFrame

\* rate.assess(tenant, est_tokens): only the lazy refill is written; the
\* caller is left with the Assessment
RLAssess(c, tenant, est_tokens) ==
  /\ callers[c].pc = "idle"
  /\ buckets' = AssessBuckets(buckets, tenant)
  /\ callers' = [callers EXCEPT ![c] =
                   [NoCall EXCEPT !.pc = "assessed", !.tenant = BucketOf(tenant),
                                  !.cost = est_tokens,
                                  !.assessment = Assess(buckets, tenant, est_tokens)]]
  /\ UNCHANGED <<sems, semq>>
  /\ RLFrame

RLNext ==
  \/ \E c \in Callers, tenant \in RequestTenants, cost \in Costs : RLAcquire(c, tenant, cost)
  \/ \E c \in Callers : RLGranted(c)
  \/ \E c \in Callers : RLSleepWake(c)
  \/ \E c \in Callers : RLRelease(c)
  \/ \E c \in Callers, tenant \in RequestTenants, est \in Costs : RLAssess(c, tenant, est)
  \/ Tick

RLSpec == RLInit /\ [][RLNext]_vars

\* ------------------------------- RateLimiter with a limited default tenant
\* rate_limits with an explicit entry for "default": the tenants that have
\* no entry of their own (t2) share its bucket, semaphore and policy.
RLDefaultManifests ==
  {[rate_limits |-> ("t1" :> [tokens_per_sec |-> 1, burst |-> 1, max_concurrency |-> 1,
                              on_exhaustion |-> p1])
                    @@ ("default" :> [tokens_per_sec |-> 1, burst |-> 1,
                                      max_concurrency |-> 1, on_exhaustion |-> pd]),
    penalty_window |-> 1, fair_share |-> ("t1" :> 2), chunked_prefill |-> TRUE,
    prefill_chunk_tokens |-> 2, min_decode_slots |-> MinDecodeSlots,
    prefix_awareness |-> TRUE, aging_seconds |-> 1, backend |-> "local"] :
     p1 \in Policies, pd \in Policies}

RLDefaultInit ==
  /\ cfg \in RLDefaultManifests
  /\ now = 0
  /\ buckets = [t \in Buckets |->
                  [tokens |-> BurstOf(cfg.rate_limits[t]), last_ts |-> 0]]
  /\ sems = [t \in Buckets |-> SlotsOf(cfg.rate_limits[t])]
  /\ semq = [t \in Buckets |-> <<>>]
  /\ lru = <<>>
  /\ arrival = 0
  /\ q = <<>>
  /\ reqs = <<>>
  /\ out_q = [r \in Reqs |-> <<>>]
  /\ done = [r \in Reqs |-> FALSE]
  /\ sched = AtLoop
  /\ relay = [r \in Reqs |-> "idle"]
  /\ yielded = [r \in Reqs |-> <<>>]
  /\ hist = [r \in Reqs |-> NoHist]
  /\ requeues = 0
  /\ callers = [c \in Callers |-> NoCall]

RLDefaultSpec == RLDefaultInit /\ [][RLNext]_vars

\* ------------------------------------- RateLimiter callers that keep going
\* the clocks advance while a sleeping caller's timer is not yet due
RLTick ==
  /\ \/ now < MaxTime
     \/ \E c \in Callers :
          /\ callers[c].pc = "sleep"
          /\ ~SleepOver(callers[c].tenant, callers[c].start, callers[c].deficit)
  /\ now' = now + 1
  /\ UNCHANGED <<cfg, buckets, sems, semq, lru, arrival, q, reqs, out_q, done,
                 sched, relay, yielded, hist, requeues, callers>>

\* a suspended acquire_for_decode call resumes
RLResume == \E c \in Callers : RLGranted(c) \/ RLSleepWake(c)

\* a held handle is released
RLHandleReleased == \E c \in Callers : RLRelease(c)

RLFairNext ==
  \/ \E c \in Callers, tenant \in RequestTenants, cost \in Costs : RLAcquire(c, tenant, cost)
  \/ RLResume
  \/ RLHandleReleased
  \/ RLTick

\* the event loop resumes a task whose future is set or whose timer is due,
\* time passes, and every handle held is released in the end
RLFairSpec ==
  /\ RLInit
  /\ [][RLFairNext]_vars
  /\ WF_vars(RLResume)
  /\ WF_vars(RLHandleReleased)
  /\ WF_vars(RLTick)

\* ---------------------------------------------------------------- claims
\* a step of the scheduler loop that pops the head of the heap
PopStep == sched.pc = "loop" /\ relay' = relay /\ q' # q

Queued(rid, kind) == \E i \in 1..Len(q) : q[i].req_id = rid /\ q[i].kind = kind

\* no penalty, and the same weight, prefix-hit probability and creation time
EqualFooting(a, b) ==
  /\ TenantWeight(reqs[a].tenant) = TenantWeight(reqs[b].tenant)
  /\ reqs[a].penalty_mult.n <= reqs[a].penalty_mult.d
  /\ reqs[b].penalty_mult.n <= reqs[b].penalty_mult.d
  /\ reqs[a].prefix_hit_prob = reqs[b].prefix_hit_prob
  /\ reqs[a].created_ts = reqs[b].created_ts

\* C1: of two requests on an equal footing that both have their first prefill
\* item queued, the loop never pops the prefill item of the one with more
\* estimated tokens while the prefill item of the shorter one is still queued.
C1_ShorterPrefillFirst ==
  [][PopStep /\ q[1].kind = "prefill" /\ q[1].offset = 0 =>
       \A a \in DOMAIN reqs :
          ~(/\ a # q[1].req_id
            /\ Queued(a, "prefill")
            /\ hist[a].prefill_calls = <<>>
            /\ EqualFooting(a, q[1].req_id)
            /\ reqs[a].est_tokens < reqs[q[1].req_id].est_tokens)]_vars

\* C2: once done is set for a request, its submit_and_stream generator can
\* always go on to return: it is never left suspended with no step to take
\* (nothing is put into out_q after done, so such a generator waits forever).
C2_DoneRelayCanFinish ==
  \A r \in Reqs :
     done[r] /\ relay[r] # "returned" => ENABLED (RelayWake(r) \/ RelayResume(r))

NonEmpty(fragments) == SelectSeq(fragments, LAMBDA f : f # 0)

\* C3: when submit_and_stream has returned, done is set, out_q is empty and
\* the fragments yielded are exactly the non-empty fragments the backend
\* produced, in order.
C3_RoundTrip ==
  \A r \in Reqs :
     relay[r] = "returned" =>
        /\ done[r]
        /\ out_q[r] = <<>>
        /\ yielded[r] = NonEmpty(hist[r].produced)

\* a request whose two-fragment stream was relayed to the end
C3_Witness ==
  \E r \in Reqs : relay[r] = "returned" /\ Len(yielded[r]) >= 2

\* handles of tenant t returned by acquire_for_decode and not yet released
HandlesHeld(t) == Cardinality({c \in Callers : callers[c].pc = "holding" /\ callers[c].tenant = t})

\* C4: for a tenant with max_concurrency = N > 0 under policy reject or
\* deprioritize, an acquire_for_decode made while N handles are unreleased
\* fails at once for reason "concurrency": with RateLimitError under reject,
\* with RateLimitRetry under deprioritize.
C4_ConcurrencyRejected ==
  [][\A c \in Callers :
       callers[c].pc = "idle" /\ callers'[c].pc \notin {"idle", "assessed"} =>
          LET t == callers'[c].tenant
              policy == RlCfg(t).on_exhaustion
          IN RlCfg(t).max_concurrency > 0
             /\ HandlesHeld(t) = RlCfg(t).max_concurrency
             /\ policy \in {"reject", "deprioritize"}
             => /\ callers'[c].pc = "raised"
                /\ callers'[c].reason = "concurrency"
                /\ callers'[c].exc = IF policy = "reject" THEN "RateLimitError"
                                     ELSE "RateLimitRetry"]_vars

InQueue(rid) == \E i \in 1..Len(q) : q[i].req_id = rid

\* C5: once acquire_for_decode has raised RateLimitError for a request's
\* decode item, in the main loop or in the extra-decode pass, the request is
\* done, no queue item of it remains and decode_stream has not been invoked
\* for it.
C5_RejectMarksDone ==
  \A r \in Reqs :
     hist[r].rejects_main \/ hist[r].rejects_extra =>
        done[r] /\ ~InQueue(r) /\ hist[r].decode_calls = 0

ItemsOf(heap, rid) == {i \in 1..Len(heap) : heap[i].req_id = rid}

PolicyOf(rid) == RlCfg(BucketOf(reqs[rid].tenant)).on_exhaustion

\* after the step, request rid has exactly one queue item: a decode item
\* scored at the time of the step, the newest arrival
Requeued(rid) ==
  /\ Cardinality(ItemsOf(q', rid)) = 1
  /\ \A i \in ItemsOf(q', rid) :
        /\ q'[i].kind = "decode"
        /\ q'[i].score = Score(reqs[rid], "decode", now)
        /\ q'[i].arrival_id = arrival + 1
  /\ arrival' = arrival + 1
  /\ done'[rid] = done[rid]
  /\ out_q'[rid] = out_q[rid]
  /\ sched'.pc = "loop"

\* C6: when acquire_for_decode raises RateLimitRetry for a request's decode
\* item, the scheduler neither sets the request's done flag nor writes to its
\* out_q, and (after the pause, in the main loop) puts back exactly one decode
\* item for it, scored afresh, and goes on with the loop.
C6_RetryRequeues ==
  [][/\ sched.pc # "retry_sleep" /\ sched'.pc = "retry_sleep" =>
          /\ done'[sched'.item.req_id] = done[sched'.item.req_id]
          /\ out_q'[sched'.item.req_id] = out_q[sched'.item.req_id]
          /\ ItemsOf(q', sched'.item.req_id) = {}
     /\ sched.pc = "retry_sleep" /\ sched'.pc # "retry_sleep" =>
          Requeued(sched.item.req_id)
     /\ requeues' # requeues /\ sched'.pc # "retry_sleep" =>
          \A r \in DOMAIN reqs :
             (\E i \in ItemsOf(q', r) : q'[i].arrival_id = arrival')
             /\ PolicyOf(r) = "deprioritize" => Requeued(r)]_vars

\* a retried request back in the queue, its decode item the newest arrival,
\* scored later than the request was created
C6_Witness ==
  /\ requeues > 0
  /\ sched.pc = "loop"
  /\ \E i \in 1..Len(q) :
        /\ q[i].kind = "decode"
        /\ q[i].arrival_id = arrival
        /\ PolicyOf(q[i].req_id) = "deprioritize"
        /\ ~done[q[i].req_id]
        /\ now > reqs[q[i].req_id].created_ts

\* the scheduler is inside the decode step of request rid, holding its handle
Decoding(rid) == sched.pc = "decode" /\ sched.item.req_id = rid

\* C7: every handle the scheduler obtained from acquire_for_decode has been
\* released exactly once when its decode step is over (stream ended, empty
\* stream, or decode_stream raised), and not at all while the step runs.
C7_ReleaseOnce ==
  \A r \in Reqs :
     hist[r].acquired = hist[r].released + (IF Decoding(r) THEN 1 ELSE 0)

\* decode_stream raised and the handle was released on the way out
C7_Witness ==
  /\ sched.pc = "crashed"
  /\ \E r \in Reqs : hist[r].acquired = 1 /\ hist[r].released = 1 /\ ~done[r]

\* done is set at most once, and a request that is done has no queue item,
\* is not being decoded, and had its decode step: a finished stream or a
\* rejection in the main loop
C8_DoneState ==
  \A r \in Reqs :
     /\ hist[r].done_sets = (IF done[r] THEN 1 ELSE 0)
     /\ done[r] =>
          /\ ~InQueue(r)
          /\ ~Decoding(r)
          /\ \/ hist[r].decode_calls = 1 /\ hist[r].released = 1
             \/ hist[r].rejects_main /\ hist[r].decode_calls = 0

\* done is set by the step that ends the decode step: the stream is exhausted
\* or the main loop sees the rejection
C8_DoneStep ==
  \A r \in Reqs :
     /\ Decoding(r) /\ ~Decoding(r)' /\ sched'.pc # "crashed" => ~done[r] /\ done'[r]
     /\ ~hist[r].rejects_main /\ hist'[r].rejects_main => ~done[r] /\ done'[r]
     /\ ~done[r] /\ done'[r] =>
          \/ Decoding(r)
          \/ ~hist[r].rejects_main /\ hist'[r].rejects_main

Available(bk, t) == Refill(bk[t], t, now).tokens

\* C9: under policy reject, a submit_and_stream call for a tenant whose
\* available tokens (after the lazy refill) are fewer than the request's
\* est_tokens raises at submission (no call is admitted with too few tokens),
\* and the raising call leaves the scheduler's context map, queue and arrival
\* counter, every tenant's available tokens and every semaphore as they were.
C9_RejectBeforeSubmit ==
  [][\A c \in Reqs :
       /\ relay[c] = "idle" /\ relay'[c] = "raised" =>
            /\ reqs' = reqs /\ q' = q /\ arrival' = arrival
            /\ sems' = sems /\ semq' = semq
            /\ \A t \in Buckets : Available(buckets', t) = Available(buckets, t)
            /\ \E t \in Buckets : RlCfg(t).on_exhaustion = "reject"
       /\ relay[c] = "idle" /\ relay'[c] \notin {"idle", "raised"} =>
            /\ c \in DOMAIN reqs' /\ c \notin DOMAIN reqs
            /\ PolicyOf(c)' = "reject" =>
                 Available(buckets, BucketOf(reqs'[c].tenant)) >= reqs'[c].est_tokens]_vars

\* a call rejected at submission after the clock moved, with another
\* request's item in the queue
C9_Witness ==
  /\ \E c \in Reqs : relay[c] = "raised"
  /\ q # <<>>
  /\ now > 0

\* C10: a submit_and_stream call that raised is one rejected at submission:
\* its request never reached the scheduler.  A call whose request was
\* submitted (and then met a decode-time rejection, a retry or a backend
\* failure) is waiting, yielding or returned, never raised.
C10_OnlySubmissionRaises ==
  \A c \in Reqs :
     /\ relay[c] = "raised" =>
          c \notin DOMAIN reqs /\ hist[c] = NoHist /\ ~done[c] /\ out_q[c] = <<>>
     /\ c \in DOMAIN reqs => relay[c] \in {"wait", "yield", "returned"}

\* a request rejected at decode time whose caller saw no exception
C10_Witness ==
  \E c \in Reqs : hist[c].rejects_main /\ done[c] /\ relay[c] = "wait"

\* the offsets 0, C, 2C, ... below E
RECURSIVE OffsetsFrom(_, _, _)
OffsetsFrom(off, E, C) ==
  IF off >= E THEN <<>> ELSE <<off>> \o OffsetsFrom(off + C, E, C)

\* the prefill_chunk calls the claim expects for request rid:
\* ceil(E / C) of them when chunked prefill is on, one at offset 0 when off
ExpectedPrefills(rid) ==
  IF cfg.chunked_prefill
  THEN OffsetsFrom(0, reqs[rid].est_tokens, cfg.prefill_chunk_tokens)
  ELSE <<0>>

IsPrefix(a, b) == Len(a) <= Len(b) /\ SubSeq(b, 1, Len(a)) = a

\* request rid has reached its decode step: its decode item is queued or
\* taken, decode_stream was invoked, or it is done
DecodeStage(rid) ==
  \/ Queued(rid, "decode")
  \/ sched.item.req_id = rid /\ sched.item.kind = "decode"
  \/ hist[rid].decode_calls > 0
  \/ done[rid]

\* C11: the prefill_chunk calls made for a request are an initial part of
\* the offsets 0, C, 2C, ... (ceil(E / C) of them with chunked prefill, the
\* single offset 0 without), and all of them have been made once the
\* request's decode item is enqueued or decode_stream is invoked.
C11_PrefillChunks ==
  \A r \in DOMAIN reqs :
     /\ IsPrefix(hist[r].prefill_calls, ExpectedPrefills(r))
     /\ Len(ExpectedPrefills(r)) =
          (IF cfg.chunked_prefill
           THEN (reqs[r].est_tokens + cfg.prefill_chunk_tokens - 1)
                   \div cfg.prefill_chunk_tokens
           ELSE 1)
     /\ DecodeStage(r) => hist[r].prefill_calls = ExpectedPrefills(r)
     /\ ~DecodeStage(r) => hist[r].prefill_calls # ExpectedPrefills(r)

\* a three-token request prefilled in three one-token chunks, then decoded
C11_Witness ==
  \E r \in DOMAIN reqs :
     /\ cfg.chunked_prefill
     /\ hist[r].prefill_calls = <<0, 1, 2>>
     /\ hist[r].decode_calls = 1

\* caller c makes its acquire_for_decode call in this step
Acquires(c) == callers[c].pc = "idle" /\ callers'[c].pc \notin {"idle", "assessed"}

Unlimited(t) == RlCfg(t).tokens_per_sec = 0

\* C12 as stated: for a tenant with tokens_per_sec = 0, every
\* acquire_for_decode call returns a handle at once, in every state, and
\* leaves the tenant's token level unchanged.
C12_AlwaysImmediate ==
  [][\A c \in Callers :
       Acquires(c) /\ Unlimited(callers'[c].tenant) =>
          /\ callers'[c].pc = "holding"
          /\ buckets'[callers'[c].tenant].tokens = buckets[callers'[c].tenant].tokens]_vars

\* C12: for a tenant with tokens_per_sec = 0, an acquire_for_decode call
\* that finds the tenant's semaphore unlocked returns a handle at once,
\* whatever the cost and the policy; one that finds it locked under policy
\* queue waits for a release; and the tenant's token level is never changed
\* by a call, at once or after the wait.
C12_ImmediateWhenSlotFree ==
  [][\A c \in Callers :
       /\ Acquires(c) /\ Unlimited(callers'[c].tenant) =>
            LET t == callers'[c].tenant
            IN /\ ~Locked(sems, semq, t) => callers'[c].pc = "holding"
               /\ Locked(sems, semq, t) /\ RlCfg(t).on_exhaustion = "queue" =>
                    callers'[c].pc = "wait_sem"
       /\ callers[c].pc = "wait_sem" /\ callers'[c].pc # "wait_sem"
          /\ Unlimited(callers[c].tenant) => callers'[c].pc = "holding"
       /\ \A t \in Buckets : Unlimited(t) => buckets'[t].tokens = buckets[t].tokens]_vars

\* a handle held for an unlimited tenant at a cost above its token level
C12_Witness ==
  \E c \in Callers :
     /\ callers[c].pc = "holding"
     /\ callers[c].tenant = "t1"
     /\ Unlimited("t1")
     /\ callers[c].cost > buckets["t1"].tokens

\* C13: in every reachable state of the RateLimiter (after assess,
\* acquire_for_decode under all three policies, and release calls, with a
\* clock that never goes back) every tenant's token level is within
\* 0 <= tokens <= burst.
C13_TokensWithinBurst ==
  \A t \in Buckets :
     /\ 0 <= buckets[t].tokens
     /\ buckets[t].tokens <= BurstOf(RlCfg(t))

\* policy queue handed out a handle for a cost above the burst after its
\* sleep, and the bucket was left at zero
C13_Witness ==
  \E c \in Callers :
     /\ callers[c].pc = "holding"
     /\ callers[c].tenant = "t1"
     /\ ~Unlimited("t1")
     /\ callers[c].cost > BurstOf(RlCfg("t1"))
     /\ buckets["t1"].tokens = 0

\* the request carries a penalty multiplier above 1
Penalized(ctx) == ctx.penalty_mult.n > ctx.penalty_mult.d

\* the same request without its penalty
Unpenalized(ctx) ==
  [ctx EXCEPT !.penalty_mult = [n |-> 1, d |-> 1], !.penalty_expires = 0]

\* the unpenalized score times the multiplier 5/4
PenalizedScore(ctx, kind, at) ==
  LET u == Score(Unpenalized(ctx), kind, at)
  IN [n |-> (u.n \div PenaltyDen) * PenaltyNum, d |-> u.d]

\* C14 as stated: once the penalty window of a request has elapsed, the
\* score by which any of its items is ordered in the queue is a score of
\* the same request without penalty.
C14_QueuedScoreReverts ==
  \A i \in 1..Len(q) :
     LET ctx == reqs[q[i].req_id]
     IN Penalized(ctx) /\ now >= ctx.penalty_expires =>
          \E at \in ctx.created_ts..now :
             q[i].score = Score(Unpenalized(ctx), q[i].kind, at)

\* C14: under policy deprioritize a request submitted with fewer available
\* tokens than est_tokens is admitted with a penalty multiplier above 1 that
\* expires one window after submission, and no call is rejected; every score
\* computed for a penalized request when one of its items is enqueued includes
\* the multiplier if the window has not elapsed at that moment and is the
\* unpenalized score if it has.
C14_PenaltyAtEnqueue ==
  [][/\ \A c \in Reqs :
          /\ c \notin DOMAIN reqs /\ c \in DOMAIN reqs' /\ PolicyOf(c)' = "deprioritize" =>
               /\ Penalized(reqs'[c]) <=>
                    Available(buckets, BucketOf(reqs'[c].tenant)) < reqs'[c].est_tokens
               /\ Penalized(reqs'[c]) =>
                    /\ reqs'[c].penalty_expires = now + cfg.penalty_window
                    /\ \E i \in 1..Len(q') :
                          /\ q'[i].req_id = c
                          /\ q'[i].score = PenalizedScore(reqs'[c], "prefill", now)
          /\ (\A t \in Buckets : RlCfg(t).on_exhaustion = "deprioritize") =>
               relay'[c] # "raised"
     /\ \A i \in 1..Len(q') :
          q'[i].arrival_id > arrival /\ Penalized(reqs'[q'[i].req_id]) =>
             LET ctx == reqs'[q'[i].req_id]
             IN q'[i].score = IF now < ctx.penalty_expires
                              THEN PenalizedScore(ctx, q'[i].kind, now)
                              ELSE Score(Unpenalized(ctx), q'[i].kind, now)]_vars

\* an item of a penalized request enqueued after its window, with the
\* unpenalized score
C14_Witness ==
  \E i \in 1..Len(q) :
     LET ctx == reqs[q[i].req_id]
     IN /\ Penalized(ctx)
        /\ now >= ctx.penalty_expires
        /\ q[i].arrival_id = arrival
        /\ q[i].score = Score(Unpenalized(ctx), q[i].kind, now)
        /\ q[i].score # PenalizedScore(ctx, q[i].kind, now)

\* caller c makes its assess call in this step
Assesses(c) == callers[c].pc = "idle" /\ callers'[c].pc = "assessed"

\* the Assessment of caller c is the one the claim describes for the state
\* the call was made in
AssessedAsStated(c) ==
  LET a == callers'[c].assessment
      t == callers'[c].tenant
      deficit == Max(0, callers'[c].cost - Available(buckets, t))
      pol == RlCfg(t).on_exhaustion
  IN /\ a.tenant = t
     /\ a.policy = pol
     /\ a.tokens_deficit = deficit
     /\ IF pol = "deprioritize" /\ deficit > 0
        THEN /\ a.penalty_multiplier = [n |-> PenaltyNum, d |-> PenaltyDen]
             /\ a.penalty_expires_at = now + cfg.penalty_window
        ELSE /\ a.penalty_multiplier = [n |-> 1, d |-> 1]
             /\ a.penalty_expires_at = 0

\* an idle caller can make any assess call: the call neither blocks nor raises
AssessNeverBlocks ==
  \A c \in Callers :
     callers[c].pc = "idle" =>
        \A tenant \in RequestTenants, est \in Costs : ENABLED RLAssess(c, tenant, est)

\* C15: assess never blocks and never raises; it returns
\* deficit = max(0, est_tokens - tokens after the lazy refill), the configured
\* multiplier with expiry now + window exactly when the policy is deprioritize
\* and the deficit is positive, and multiplier 1.0 with expiry 0 otherwise.
C15_Assess ==
  /\ []AssessNeverBlocks
  /\ [][\A c \in Callers : Assesses(c) => AssessedAsStated(c)]_vars

\* one assessment with a penalty and one with a deficit but no penalty
C15_Witness ==
  \E c1, c2 \in Callers :
     /\ callers[c1].pc = "assessed" /\ callers[c2].pc = "assessed"
     /\ callers[c1].assessment.penalty_multiplier.n > 1
     /\ callers[c2].assessment.penalty_multiplier.n = 1
     /\ callers[c2].assessment.tokens_deficit > 0

\* C16: with aging on (aging_seconds > 0), a request with large est_tokens
\* that has waited in the queue for aging_seconds eventually reaches done,
\* however the other callers keep submitting.
C16_NoStarvation ==
  \A r \in Reqs :
     (/\ r \in DOMAIN reqs
      /\ reqs[r].est_tokens = 3
      /\ cfg.aging_seconds > 0
      /\ now - reqs[r].created_ts >= cfg.aging_seconds
      /\ InQueue(r)) ~> done[r]

\* the scheduler takes an item out of the queue in this step
Takes == sched'.item # sched.item /\ \E i \in 1..Len(q) : q[i] = sched'.item

\* C17: an item taken from the queue, by the main-loop pop or by the
\* extra-decode pass, has the smallest arrival id among the queued items of
\* its score.
C17_TiesInArrivalOrder ==
  [][Takes =>
       \A j \in 1..Len(q) :
          ScoreEq(q[j].score, sched'.item.score)
          => q[j].arrival_id >= sched'.item.arrival_id]_vars

\* the decode stream of the item in hand is over in this step: exhausted,
\* cut short by a failure the callback swallows, or left by an exception
StreamOver == sched.pc = "decode" /\ sched' # sched

\* C18: when a decode stream is over, by a backend failure on any of the
\* three backends as by a clean end, the request is done with what was put
\* so far, its handle is released and the scheduler loop is still running.
C18_FailureEndsStream ==
  [][StreamOver =>
       LET rid == sched.item.req_id
       IN /\ done'[rid]
          /\ hist'[rid].released = hist'[rid].acquired
          /\ sched'.pc # "crashed"]_vars

\* the items of the heap array, as a set (arrival ids are distinct)
QueueItems(heap) == {heap[i] : i \in 1..Len(heap)}

\* the request id under which this step registers a context
NewId == CHOOSE r \in DOMAIN reqs' : r \notin DOMAIN reqs

\* a submit call can be made and return in every state (while the model
\* has an unused index for it)
SubmitNeverBlocks ==
  (\E r \in DOMAIN done : r \notin DOMAIN reqs) =>
     \A tenant \in SubmitTenants, est_tokens \in SubmitEsts :
        ENABLED submit(tenant, est_tokens, 1, [n |-> 1, d |-> 1], 0)

\* what a submit(tenant, est_tokens, ...) step leaves behind
SubmitEffect(tenant, est_tokens) ==
  /\ Cardinality(DOMAIN reqs' \ DOMAIN reqs) = 1
  /\ NewId \notin DOMAIN reqs
  /\ reqs'[NewId].tenant = tenant
  /\ reqs'[NewId].est_tokens = Max(1, est_tokens)
  /\ reqs'[NewId].est_tokens >= 1
  /\ \A r \in DOMAIN reqs : reqs'[r] = reqs[r]
  /\ Len(q') = Len(q) + 1
  /\ QueueItems(q) \subseteq QueueItems(q')
  /\ \E it \in QueueItems(q') \ QueueItems(q) :
        /\ QueueItems(q') = QueueItems(q) \cup {it}
        /\ it.req_id = NewId
        /\ it.kind = "prefill"
        /\ it.offset = 0
  /\ UNCHANGED <<done, out_q, sched, buckets, sems>>

\* C19: submit can always be called and returns; it registers the new context
\* under an id no other context has, with est_tokens raised to at least 1,
\* pushes exactly one item for it (prefill, offset 0), and leaves the other
\* contexts and queue items as they were.
C19_Submit ==
  /\ []SubmitNeverBlocks
  /\ [][\A tenant \in SubmitTenants, est_tokens \in SubmitEsts :
          submit(tenant, est_tokens, 1, [n |-> 1, d |-> 1], 0)
            => SubmitEffect(tenant, est_tokens)]_vars

\* a context submitted with est_tokens 0 (stored as 1) next to other queued items
C19_Witness ==
  \E r \in DOMAIN reqs : reqs[r].est_tokens = 1 /\ InQueue(r) /\ Len(q) >= 2

\* the fingerprints held by the map
LruKeys(l) == {l[i].key : i \in 1..Len(l)}

\* the position in the call log of the last observe of fingerprint k
LastObserved(log, k) ==
  CHOOSE i \in 1..Len(log) :
     /\ PrefixKey(log[i]) = k
     /\ \A j \in (i + 1)..Len(log) : PrefixKey(log[j]) # k

\* the held fingerprint whose last observe lies furthest back
LeastRecent(l, log) ==
  CHOOSE k \in LruKeys(l) :
     \A k2 \in LruKeys(l) : LastObserved(log, k) <= LastObserved(log, k2)

\* what an observe(prompt) step leaves behind
ObserveEffect(prompt) ==
  LET key == PrefixKey(prompt)
  IN /\ key \in LruKeys(lru')
     /\ IF key \notin LruKeys(lru) /\ Len(lru) = cfg.max_entries
        THEN LruKeys(lru') = (LruKeys(lru) \ {LeastRecent(lru, callers)}) \cup {key}
        ELSE LruKeys(lru') = LruKeys(lru) \cup {key}
     /\ LruCount(lru', key) = LruCount(lru, key) + 1
     /\ \A k \in LruKeys(lru') \ {key} : LruCount(lru', k) = LruCount(lru, k)

\* C20: the map never holds more than max_entries entries (one per
\* fingerprint); an observe of a new fingerprint at capacity evicts exactly
\* one entry, the one observed least recently (by insertion or by a later
\* observe), and never the fingerprint just observed; any other observe
\* evicts nothing.
C20_LruEviction ==
  /\ [](Len(lru) <= cfg.max_entries /\ Cardinality(LruKeys(lru)) = Len(lru))
  /\ [][\A prompt \in PrefixPrompts : Observe(prompt) => ObserveEffect(prompt)]_vars

\* A, B, A, C observed with capacity 2: B, not A, has been evicted
C20_Witness ==
  /\ cfg.max_entries = 2
  /\ Len(callers) = 4
  /\ PrefixKey(callers[1]) = PrefixKey(callers[3])
  /\ PrefixKey(callers[2]) \notin {PrefixKey(callers[1]), PrefixKey(callers[4])}
  /\ PrefixKey(callers[4]) # PrefixKey(callers[1])
  /\ LruKeys(lru) = {PrefixKey(callers[1]), PrefixKey(callers[4])}

\* the probability for a post-increment sighting count, in tenths
Quantized(cnt) ==
  IF cnt >= 5 THEN 9 ELSE IF cnt = 4 THEN 7 ELSE IF cnt = 3 THEN 5
  ELSE IF cnt = 2 THEN 3 ELSE 1

\* the fingerprint was never evicted when every call so far observed it
OneFingerprint ==
  \A i, j \in 1..Len(callers) : PrefixKey(callers[i]) = PrefixKey(callers[j])

\* what an observe(prompt) call returns
ObserveReturns(prompt) ==
  LET key == PrefixKey(prompt)
      ret == callers'[Len(callers')].prob
  IN /\ ret = Quantized(LruCount(lru', key))
     /\ key \in LruKeys(lru) =>
          /\ LruCount(lru', key) = LruCount(lru, key) + 1
          /\ \A i \in 1..Len(callers) :
                (/\ PrefixKey(callers[i]) = key
                 /\ \A j \in (i + 1)..Len(callers) : PrefixKey(callers[j]) # key)
                => ret >= callers[i].prob
     /\ key \notin LruKeys(lru) => ret = 1

\* C21: successive observes of prompts with one fingerprint return 0.1, 0.3,
\* 0.5, 0.7, 0.9, 0.9; every observe returns the value for the fingerprint's
\* count after the increment, never less than the previous observe of a
\* fingerprint still held, and 0.1 for a fingerprint not held (new or evicted).
C21_Sightings ==
  /\ [](OneFingerprint =>
          \A i \in 1..Len(callers) : callers[i].prob = <<1, 3, 5, 7, 9, 9>>[i])
  /\ [][\A prompt \in PrefixPrompts : Observe(prompt) => ObserveReturns(prompt)]_vars

\* six observes of prompts of 600 and 700 characters, the sixth returning 0.9
C21_Witness ==
  /\ Len(callers) = 6
  /\ OneFingerprint
  /\ \E i, j \in 1..6 : callers[i].len = 600 /\ callers[j].len = 700
  /\ callers[5].prob = 9
  /\ callers[6].prob = 9

\* caller c's acquire_for_decode call fails in this step for lack of tokens
FailsForTokens(c) ==
  /\ callers[c].pc = "idle"
  /\ callers'[c].pc = "raised"
  /\ callers'[c].reason = "tokens"

\* C22: an acquire_for_decode call that fails for lack of tokens (under
\* reject or deprioritize) leaves the tenant's semaphore value as it was
\* before the call, and its token level at the lazily refilled level.
C22_TokenFailureRestores ==
  [][\A c \in Callers :
       FailsForTokens(c) =>
          LET t == callers'[c].tenant
          IN /\ sems'[t] = sems[t]
             /\ buckets'[t].tokens = Refill(buckets[t], t, now).tokens]_vars

Queues(t) == RlCfg(t).on_exhaustion = "queue"

\* what the steps of an acquire_for_decode call do under policy queue
QueueStep(c) ==
  LET t == callers'[c].tenant
  IN /\ Acquires(c) /\ Queues(t) =>
          IF Locked(sems, semq, t) THEN callers'[c].pc = "wait_sem"
          ELSE callers'[c].pc \in {"holding", "sleep"}
     /\ callers[c].pc = "wait_sem" /\ callers'[c].pc # "wait_sem" =>
          callers'[c].pc \in {"holding", "sleep"}
     /\ callers[c].pc = "sleep" /\ callers'[c].pc # "sleep" =>
          /\ callers'[c].pc = "holding"
          /\ now - callers[c].start <= SleepCap
          /\ buckets'[t].tokens =
               Max(0, Refill(buckets[t], t, now).tokens - callers[c].cost)

\* C23: under policy queue no acquire_for_decode call raises; a call that
\* finds the semaphore locked waits and then goes on, one short of tokens
\* sleeps at most SleepCap, sets the level to max(0, tokens - cost) and
\* returns a handle; and with handles released every call returns a handle.
C23_QueueAlwaysReturns ==
  /\ [](\A c \in Callers : Queues(callers[c].tenant) => callers[c].pc # "raised")
  /\ [][\A c \in Callers : QueueStep(c)]_vars
  /\ \A c \in Callers :
        (callers[c].pc \in {"wait_sem", "sleep"} /\ Queues(callers[c].tenant))
           ~> (callers[c].pc \in {"holding", "released"})

\* a caller holding a handle got after a sleep, the other caller's handle
\* released, the bucket emptied by the clamped debit
C23_Witness ==
  \E c, c2 \in Callers :
     /\ Queues("t1")
     /\ callers[c].pc = "holding" /\ callers[c].tenant = "t1" /\ callers[c].deficit > 0
     /\ callers[c2].pc = "released" /\ callers[c2].tenant = "t1"
     /\ buckets["t1"].tokens = 0

\* the tenant whose bucket, semaphore and policy serve a call made for `tenant`
ServedBy(tenant) == IF tenant \in DOMAIN cfg.rate_limits THEN tenant ELSE "default"

\* the step leaves every tenant other than t as it was
OthersUntouched(t) ==
  \A o \in DOMAIN buckets \ {t} :
     buckets'[o] = buckets[o] /\ sems'[o] = sems[o] /\ semq'[o] = semq[o]

\* what caller c is left with fits the policy configured for t
FollowsPolicyOf(c, t) ==
  LET pol == cfg.rate_limits[t].on_exhaustion
  IN /\ callers'[c].pc \in {"wait_sem", "sleep"} => pol = "queue"
     /\ callers'[c].exc = "RateLimitError" => pol = "reject"
     /\ callers'[c].exc = "RateLimitRetry" => pol = "deprioritize"
     /\ callers'[c].pc = "assessed" => callers'[c].assessment.policy = pol

\* C24: "default" always has a configuration, a bucket and a semaphore; a
\* call of assess or acquire_for_decode for a tenant without an entry is
\* served by the bucket, semaphore and policy of "default"; and no call,
\* resumption or release for one tenant changes the bucket or the semaphore
\* of another.
C24_DefaultAndFrame ==
  /\ []("default" \in DOMAIN cfg.rate_limits /\ "default" \in DOMAIN buckets
        /\ "default" \in DOMAIN sems)
  /\ [][\A c \in Callers, tenant \in RequestTenants, n \in Costs :
          (RLAcquire(c, tenant, n) \/ RLAssess(c, tenant, n)) =>
             /\ callers'[c].tenant = ServedBy(tenant)
             /\ OthersUntouched(ServedBy(tenant))
             /\ FollowsPolicyOf(c, ServedBy(tenant))]_vars
  /\ [][\A c \in Callers :
          (RLGranted(c) \/ RLSleepWake(c) \/ RLRelease(c)) =>
             OthersUntouched(callers[c].tenant)]_vars

\* a call for t2 made to wait by the policy of "default" (queue) while
\* another handle of "default" is held, t1 being configured otherwise
\* (reject) and untouched
C24_Witness ==
  \E c, c2 \in Callers :
     /\ cfg.rate_limits["default"].on_exhaustion = "queue"
     /\ cfg.rate_limits["t1"].on_exhaustion = "reject"
     /\ callers[c].tenant = "default" /\ callers[c].pc = "holding"
     /\ callers[c2].tenant = "default" /\ callers[c2].pc = "wait_sem"
     /\ sems["t1"] = 1 /\ buckets["t1"].tokens = 1

\* the queued item of request rid
ItemFor(rid) == CHOOSE it \in QueueItems(q) : it.req_id = rid

\* the two scored contexts differ in nothing but the attribute left out
SameBut(attr) ==
  \A f \in {"tenant", "est_tokens", "prefix_hit_prob", "created_ts",
            "penalty_mult", "penalty_expires"} \ {attr} : reqs[1][f] = reqs[2][f]

\* C25: of two requests equal in everything but the tenant, the one whose
\* tenant has the higher (or the same) weight has the lower (or the same)
\* score, and when it is strictly lower its item is at the top of the heap.
C25_WeightMonotone ==
  (q # <<>> /\ SameBut("tenant")
     /\ TenantWeight(reqs[1].tenant) >= TenantWeight(reqs[2].tenant)) =>
       /\ ~ScoreLess(ItemFor(2).score, ItemFor(1).score)
       /\ ScoreLess(ItemFor(1).score, ItemFor(2).score) => q[1].req_id = 1
       /\ TenantWeight(reqs[1].tenant) = TenantWeight(reqs[2].tenant) =>
            ScoreEq(ItemFor(1).score, ItemFor(2).score)

\* equal requests of tenants with weights 2 and 1, the heavier one first
C25_Witness ==
  /\ q # <<>> /\ SameBut("tenant")
  /\ TenantWeight(reqs[1].tenant) = 2 /\ TenantWeight(reqs[2].tenant) = 1
  /\ ScoreLess(ItemFor(1).score, ItemFor(2).score)
  /\ q[1].req_id = 1

\* the fraction sc multiplied by num / den
Times(sc, num, den) == [n |-> sc.n * num, d |-> sc.d * den]

\* C26: of two requests equal in everything but the prefix-hit probability,
\* with prefix_awareness on the one above 0.5 scores exactly 0.7 times the
\* one at or below 0.5, two at or below 0.5 (0.5 itself included) score the
\* same, and with prefix_awareness off the scores are equal.
C26_PrefixDiscount ==
  (q # <<>> /\ SameBut("prefix_hit_prob")) =>
     IF cfg.prefix_awareness /\ reqs[1].prefix_hit_prob > 5
                             /\ reqs[2].prefix_hit_prob <= 5
     THEN ScoreEq(ItemFor(1).score, Times(ItemFor(2).score, 7, 10))
     ELSE IF cfg.prefix_awareness /\ reqs[2].prefix_hit_prob > 5
                                  /\ reqs[1].prefix_hit_prob <= 5
     THEN ScoreEq(ItemFor(2).score, Times(ItemFor(1).score, 7, 10))
     ELSE ScoreEq(ItemFor(1).score, ItemFor(2).score)

\* prefix_awareness on, probabilities 0.6 and 0.5: the first is discounted
C26_Witness ==
  /\ q # <<>> /\ SameBut("prefix_hit_prob")
  /\ cfg.prefix_awareness
  /\ reqs[1].prefix_hit_prob = 6 /\ reqs[2].prefix_hit_prob = 5
  /\ ScoreLess(ItemFor(1).score, ItemFor(2).score)

\* the score the queued item of request rid would have without any wait
Unaged(rid) ==
  Score([reqs[rid] EXCEPT !.created_ts = now], ItemFor(rid).kind, now)

\* C27: whatever the wait (none, longer than aging_seconds, or a creation
\* time later than the current time), the score of an item is at most the
\* score without wait and at least 0.8 times it; without aging it is equal.
C27_AgingFactor ==
  q # <<>> =>
    \A r \in DOMAIN reqs :
       /\ ~ScoreLess(Unaged(r), ItemFor(r).score)
       /\ ~ScoreLess(ItemFor(r).score, Times(Unaged(r), 4, 5))
       /\ cfg.aging_seconds = 0 => ScoreEq(ItemFor(r).score, Unaged(r))
       /\ now <= reqs[r].created_ts => ScoreEq(ItemFor(r).score, Unaged(r))

\* aging on: one request waited twice aging_seconds and has the factor 0.8,
\* the other was created after the current time and has the factor 1
C27_Witness ==
  /\ q # <<>>
  /\ cfg.aging_seconds = 1 /\ now = 1
  /\ reqs[1].created_ts = -1 /\ reqs[2].created_ts = 2
  /\ ScoreEq(ItemFor(1).score, Times(Unaged(1), 4, 5))
  /\ ScoreEq(ItemFor(2).score, Unaged(2))

\* C28: every request context has est_tokens >= 1 and every queued item a
\* score with a positive numerator and a positive denominator; a submit
\* stores max(1, est_tokens), and the router passes max(1, len(prompt) // 4).
C28_EstTokensPositive ==
  /\ [](/\ \A r \in DOMAIN reqs : reqs[r].est_tokens >= 1
        /\ \A it \in QueueItems(q) : it.score.n > 0 /\ it.score.d > 0)
  /\ [][/\ \A tenant \in RequestTenants, est_tokens \in DirectEsts :
             submit(tenant, est_tokens, 1, [n |-> 1, d |-> 1], 0) =>
               reqs'[FreshId].est_tokens = IF est_tokens < 1 THEN 1 ELSE est_tokens
        /\ \A tenant \in RequestTenants, prompt \in ShortPrompts :
             RouterSubmit(tenant, prompt) =>
               reqs'[FreshId].est_tokens = IF prompt.len < 4 THEN 1
                                           ELSE prompt.len \div 4]_vars

\* a context whose est_tokens was raised to 1 (no input is 1), scored 1/1
C28_Witness ==
  \E r \in DOMAIN reqs :
     /\ reqs[r].est_tokens = 1
     /\ \E it \in QueueItems(q) :
          it.req_id = r /\ it.score.d = TenantWeight(reqs[r].tenant)

\* the calls that hold a slot of t's semaphore: a handle returned and not yet
\* released, the call asleep between its acquire and its return, and the
\* waiter a release has handed the slot to
Unreleased(t) ==
  Cardinality({c \in Callers :
     /\ callers[c].tenant = t
     /\ IF callers[c].pc = "wait_sem"
        THEN \E i \in 1..Len(semq[t]) : semq[t][i].who = c /\ semq[t][i].granted
        ELSE callers[c].pc \in {"holding", "sleep"}})

\* C29: for a tenant with max_concurrency = N > 0 the semaphore's value is N
\* minus the number of unreleased handles, is never above N, and no more
\* than N handles are unreleased.
C29_SlotAccounting ==
  \A t \in Buckets :
     cfg.rate_limits[t].max_concurrency > 0 =>
        /\ sems[t] = cfg.rate_limits[t].max_concurrency - Unreleased(t)
        /\ sems[t] <= cfg.rate_limits[t].max_concurrency
        /\ Unreleased(t) <= cfg.rate_limits[t].max_concurrency

\* C30: with finitely many submissions, finite streams and a scheduler task
\* that keeps running, every submitted request eventually reaches done,
\* whatever its est_tokens and its tenant's policy.
C30_EveryRequestDone ==
  \A r \in Reqs : (r \in DOMAIN reqs) ~> done[r]

\* the loop has popped an item of request rid and has not finished with it
Executing(rid) ==
  /\ sched.pc \in {"prefill", "decode", "retry_sleep", "acq_sleep", "acq_wait"}
  /\ sched.item.req_id = rid

\* C31: a request that is neither done nor being executed by the loop has
\* exactly one queue item, a request being executed has none and a done
\* request has none.
C31_OneItemPerRequest ==
  \A r \in DOMAIN reqs :
     Cardinality(ItemsOf(q, r)) =
        IF done[r] \/ Executing(r) THEN 0 ELSE 1

\* the callers whose acquire_for_decode call for bucket t returned a handle
Succeeded(t) ==
  {c \in Callers : callers[c].tenant = t /\ callers[c].pc \in {"holding", "released"}}

RECURSIVE CostOf(_)
CostOf(cs) ==
  IF cs = {} THEN 0
  ELSE LET c == CHOOSE x \in cs : TRUE IN callers[c].cost + CostOf(cs \ {c})

\* policy reject or deprioritize with a positive rate
Metered(t) ==
  RlCfg(t).tokens_per_sec > 0 /\ RlCfg(t).on_exhaustion \in {"reject", "deprioritize"}

\* C32: under reject and deprioritize with rate r > 0, the cost of all
\* successful acquire_for_decode calls up to time `now` is at most
\* burst + r * now, and a successful call leaves the refilled token level
\* minus its cost in the bucket.
C32_TokenBudget ==
  /\ [](\A t \in Buckets :
          Metered(t) =>
            CostOf(Succeeded(t)) <= BurstOf(RlCfg(t)) + RlCfg(t).tokens_per_sec * now)
  /\ [][\A c \in Callers, tenant \in RequestTenants, cost \in Costs :
          (/\ RLAcquire(c, tenant, cost)
           /\ Metered(BucketOf(tenant))
           /\ callers'[c].pc = "holding") =>
             buckets'[BucketOf(tenant)].tokens =
                Refill(buckets[BucketOf(tenant)], BucketOf(tenant), now).tokens - cost]_vars

\* two successful calls of cost 1 one second apart use the whole budget
C32_Witness ==
  /\ Metered("t1") /\ now = 1
  /\ Cardinality(Succeeded("t1")) = 2
  /\ CostOf(Succeeded("t1")) = BurstOf(RlCfg("t1")) + RlCfg("t1").tokens_per_sec * now
  /\ buckets["t1"].tokens = 0

\* this step takes an item for the extra-decode pass and suspends with it
\* (in its stream, or in acquire_for_decode under policy queue)
TakesExtra == sched'.mode = "extra" /\ sched'.item # sched.item

\* this step ends a decode stream and, with it, possibly the iteration
EndsStream == sched.pc = "decode" /\ sched' # sched /\ sched'.item # sched.item

\* C33: with min_decode_slots = 2 the extra pass takes an item only at the
\* end of the stream of the item popped by the main loop, never at the end
\* of an extra stream, so an iteration runs at most min_decode_slots streams;
\* the item the pass takes is a queued decode item, and every other queued
\* item, decode or prefill, is still queued after the step.
C33_ExtraPassBounded ==
  [][/\ TakesExtra =>
          /\ sched.pc = "decode" /\ sched.mode = "main"
          /\ sched'.extra = cfg.min_decode_slots - 1
          /\ sched'.item.kind = "decode"
          /\ sched'.item \in QueueItems(q)
          /\ QueueItems(q') = QueueItems(q) \ {sched'.item}
          /\ Len(q') = Len(q) - 1
     /\ (EndsStream /\ sched.mode = "extra") =>
          /\ sched'.mode # "extra"
          /\ QueueItems(q') = QueueItems(q) /\ Len(q') = Len(q)]_vars

\* an extra stream runs while another decode item and a prefill item wait:
\* the pass is out of slots and leaves both
C33_Witness ==
  /\ sched.pc = "decode" /\ sched.mode = "extra"
  /\ \E i \in 1..Len(q) : q[i].kind = "decode"
  /\ \E r \in DOMAIN reqs : done[r] /\ hist[r].decode_calls = 1

\* C34: the item the extra-decode pass takes is the least of the queued
\* decode items in heap order (score, then arrival id).
C34_ExtraTakesLowest ==
  [][TakesExtra =>
       \A j \in 1..Len(q) :
          q[j].kind = "decode" => ~ItemLess(q[j], sched'.item)]_vars

\* handles acquire_for_decode returned to the loop that are not yet released
RECURSIVE Outstanding(_)
Outstanding(rs) ==
  IF rs = {} THEN 0
  ELSE LET r == CHOOSE x \in rs : TRUE
       IN (hist[r].acquired - hist[r].released) + Outstanding(rs \ {r})

\* the loop is inside a call of acquire_for_decode, or in the pause after
\* a failed one
InAcquire == sched.pc \in {"acq_sleep", "acq_wait", "retry_sleep"}

\* C35: with the scheduler loop as the only caller of acquire_for_decode, at
\* most one handle is unreleased over all tenants, the unreleased handle is
\* the one of the request whose decode stream is running, no handle is
\* unreleased while the loop is inside acquire_for_decode, and a step in
\* which a request gets a handle (the extra pass included) ends with every
\* other handle released.
C35_OneHandle ==
  /\ [](/\ Outstanding(Reqs) <= 1
        /\ \A r \in Reqs : hist[r].acquired > hist[r].released => Decoding(r)
        /\ InAcquire => Outstanding(Reqs) = 0)
  /\ [][\A r \in Reqs :
          hist'[r].acquired > hist[r].acquired =>
             \A o \in Reqs \ {r} : hist'[o].acquired = hist'[o].released]_vars

\* the extra pass holds the handle of a second request right after the
\* stream of the first one, whose handle is released
C35_Witness ==
  /\ sched.pc = "decode" /\ sched.mode = "extra"
  /\ \E r, o \in Reqs :
        /\ r # o
        /\ hist[r].acquired = 1 /\ hist[r].released = 0
        /\ hist[o].acquired = 1 /\ hist[o].released = 1

\* acquire_for_decode raised RateLimitError for a decode item of request rid
RejectedAtDecode(rid) == hist[rid].rejects_main \/ hist[rid].rejects_extra

\* C36: decode_stream is invoked at most once per request, a fragment is put
\* into a request's out_q only while that request's decode stream is running
\* and its done flag is not set, and nothing is ever written to the out_q of
\* a request that was rejected at decode time.
C36_OutputChannel ==
  /\ [](\A r \in Reqs :
           /\ hist[r].decode_calls <= 1
           /\ RejectedAtDecode(r) => hist[r].produced = <<>>)
  /\ [][\A r \in Reqs :
          hist'[r].produced # hist[r].produced => Decoding(r) /\ ~done[r]]_vars

\* the only write of an assess call for bucket t: nothing when the bucket has
\* no rate or no time has passed since its last refill, and otherwise the
\* tokens raised by rate * elapsed up to the capacity and last_ts set to now
OnlyLazyRefill(t) ==
  LET rate == RlCfg(t).tokens_per_sec
      dt == now - buckets[t].last_ts
  IN /\ \A u \in Buckets \ {t} : buckets'[u] = buckets[u]
     /\ IF rate <= 0 \/ dt <= 0
        THEN buckets'[t] = buckets[t]
        ELSE /\ buckets'[t].last_ts = now
             /\ buckets'[t].tokens =
                   Min(BurstOf(RlCfg(t)), buckets[t].tokens + rate * dt)
             /\ buckets'[t].tokens >= buckets[t].tokens

\* C37: an assess call writes nothing but the lazy refill of the assessed
\* tenant's bucket: no tokens are deducted, the semaphores, their waiters and
\* the other callers are untouched, and a call made with no time passed since
\* the bucket's last refill leaves the limiter's state unchanged.
C37_AssessFrame ==
  [][\A c \in Callers :
       Assesses(c) =>
          /\ OnlyLazyRefill(callers'[c].tenant)
          /\ sems' = sems /\ semq' = semq
          /\ \A o \in Callers \ {c} : callers'[o] = callers[o]
          /\ buckets[callers'[c].tenant].last_ts = now => buckets' = buckets]_vars

\* one caller took the tenant's only token, and a later assess call found
\* the bucket refilled
C37_Witness ==
  \E c, o \in Callers :
     /\ callers[c].pc = "assessed" /\ callers[c].tenant = "t1"
     /\ callers[c].cost = 1 /\ callers[c].assessment.tokens_deficit = 0
     /\ callers[o].pc \in {"holding", "released"} /\ callers[o].tenant = "t1"
     /\ RlCfg("t1").tokens_per_sec > 0
     /\ buckets["t1"].tokens = 1 /\ buckets["t1"].last_ts = now

\* the arrival ids of the items of a heap array
ArrivalIds(heap) == {heap[i].arrival_id : i \in 1..Len(heap)}

\* C38: arrival ids are unique and strictly increasing in order of enqueue:
\* the queued items have pairwise different ids, so no two of them compare
\* equal in the heap order; no id is above the counter, which never
\* decreases; and every item a step enqueues (first prefill, next prefill
\* chunk, decode, decode put back after a retry or by the extra pass) has an
\* id above the counter of before the step, so above every earlier id.
C38_ArrivalIncreasing ==
  /\ [](/\ \A i, j \in 1..Len(q) :
             i # j => /\ q[i].arrival_id # q[j].arrival_id
                      /\ ItemLess(q[i], q[j]) \/ ItemLess(q[j], q[i])
        /\ \A i \in 1..Len(q) : q[i].arrival_id \in 1..arrival
        /\ sched.item.arrival_id \notin ArrivalIds(q)
        /\ sched.item.arrival_id <= arrival)
  /\ [][/\ arrival' >= arrival
        /\ \A i \in 1..Len(q') :
              q'[i].arrival_id \notin ArrivalIds(q) => q'[i].arrival_id > arrival]_vars

\* a decode item put back after a retry waits next to a later prefill chunk
\* of another request
C38_Witness ==
  /\ requeues > 0
  /\ \E i, j \in 1..Len(q) :
        /\ q[i].kind = "decode" /\ q[j].kind = "prefill" /\ q[j].offset > 0
        /\ q[i].arrival_id > 3

\* ------------------------------------------- prefill calls that can fail
\* Two direct submits under chunked prefill (est_tokens 3 takes the chunks at
\* offsets 0 and 2), no rate limit, each of the three callback classes, and a
\* scheduler task that keeps running.
FailManifests ==
  {[rate_limits |-> [t \in Buckets |-> DefaultRateLimitCfg],
    penalty_window |-> 1,
    fair_share |-> ("t1" :> 2),
    chunked_prefill |-> TRUE,
    prefill_chunk_tokens |-> 2,
    min_decode_slots |-> MinDecodeSlots,
    prefix_awareness |-> TRUE,
    aging_seconds |-> 0,
    backend |-> b] : b \in Backends}

FailInit ==
  /\ cfg \in FailManifests
  /\ now = 0
  /\ buckets = [t \in Buckets |->
                  [tokens |-> BurstOf(cfg.rate_limits[t]), last_ts |-> 0]]
  /\ sems = [t \in Buckets |-> SlotsOf(cfg.rate_limits[t])]
  /\ semq = [t \in Buckets |-> <<>>]
  /\ lru = <<>>
  /\ arrival = 0
  /\ q = <<>>
  /\ reqs = <<>>
  /\ out_q = [r \in Reqs |-> <<>>]
  /\ done = [r \in Reqs |-> FALSE]
  /\ sched = AtLoop
  /\ relay = [r \in Reqs |-> "idle"]
  /\ yielded = [r \in Reqs |-> <<>>]
  /\ hist = [r \in Reqs |-> NoHist]
  /\ requeues = 0
  /\ callers = <<>>

\* the steps of the scheduler task with any of the three callback classes
FailSched ==
  \/ SchedStep
  \/ \E n \in 0..MaxChunks : SchedDecodeLocal(n)
  \/ SchedDecodeRaise

\* a submit runs only while the loop is suspended
FailNext ==
  \/ \E est_tokens \in {1, 3} :
        /\ sched.pc = "loop" => q = <<>>
        /\ submit("t2", est_tokens, 1, [n |-> 1, d |-> 1], 0)
  \/ FailSched

FailSpec == FailInit /\ [][FailNext]_vars /\ WF_vars(FailSched)

\* the prefill_chunk call of request rid returns in this step after its
\* backend call failed
FailedChunk(rid) ==
  /\ sched.pc = "prefill" /\ sched.item.req_id = rid
  /\ sched'.pc # "prefill"
  /\ hist'[rid].prefill_failed

\* request rid has its decode item: queued, or taken by the loop
ReachedDecode(rid) ==
  \/ \E i \in 1..Len(q) : q[i].req_id = rid /\ q[i].kind = "decode"
  \/ sched.item.req_id = rid /\ sched.item.kind = "decode"
  \/ hist[rid].decode_calls > 0

\* C39: a prefill_chunk whose backend call fails neither aborts the request
\* nor stops the loop: the step leaves the loop running and the request not
\* done, with its next prefill chunk (offset advanced by the chunk size) or,
\* after the last chunk, its decode item as the newest item of the queue;
\* and a request with a failed chunk always gets its decode item.
C39_PrefillFailureSwallowed ==
  /\ [][\A r \in DOMAIN hist :
          FailedChunk(r) =>
             /\ sched'.pc = "loop"
             /\ ~done'[r] /\ r \in DOMAIN reqs'
             /\ \E i \in 1..Len(q') :
                   /\ q'[i].req_id = r /\ q'[i].arrival_id = arrival'
                   /\ arrival' = arrival + 1
                   /\ IF sched.item.offset + cfg.prefill_chunk_tokens
                            < reqs[r].est_tokens /\ cfg.chunked_prefill
                      THEN /\ q'[i].kind = "prefill"
                           /\ q'[i].offset =
                                 sched.item.offset + cfg.prefill_chunk_tokens
                      ELSE q'[i].kind = "decode"]_vars
  /\ \A r \in Reqs : hist[r].prefill_failed ~> ReachedDecode(r)

\* the stream of a request runs after both of its prefill chunks were
\* called and the call of the last one failed
C39_Witness ==
  \E r \in Reqs :
     /\ hist[r].prefill_calls = <<0, 2>>
     /\ hist[r].prefill_failed
     /\ hist[r].decode_calls = 1

====
